---- MODULE Spec2Model ----
(***************************************************************************)
(* Amplifier / preamplifier sequencer by WA2FZW.                            *)
(*                                                                         *)
(* Model of the "IC-9700 Sequencer" Version 2.0 firmware                   *)
(* (src/IC-9700_Sequencer_V2.0.ino): the polling cycle (loop), the two     *)
(* sequences (SetTransmit, SetReceive), the LNA resolver (SwitchPreamp),   *)
(* the blink driver (CheckBlink) and the two edge handlers (PTT_ISR,       *)
(* RTS_ISR), together with the pins they read and write.                   *)
(*                                                                         *)
(* A pin level is a BOOLEAN: HIGH is TRUE and LOW is FALSE, as in the      *)
(* firmware, which keeps the levels in variables of type bool.             *)
(***************************************************************************)
EXTENDS Integers, Sequences, FiniteSets, TLC

HIGH == TRUE
LOW  == FALSE

\* The band selectors (lines 113-116).
NO_BAND    == 0
BAND_1     == 1
BAND_2     == 2
BOTH_BANDS == 3

\* The levels in meaningful terms (lines 123-136).
LED_ON     == LOW
LED_OFF    == HIGH
AMP_ON     == LOW
AMP_OFF    == HIGH
LNA_RX     == HIGH
LNA_TX     == LOW
TX_OFF     == HIGH
TX_ON      == LOW
RTS_ACTIVE == LOW
PTT_ACTIVE == LOW

\* Length of the PTT confirmation window of SetReceive (line 160).
PTT_OFF_DELAY == 10

\* How many times the mode switches are moved in a run.
MaxMoves == 1

\* The two bands, and the selector of each.
Bands == {1, 2}
BandSel(b) == IF b = 1 THEN BAND_1 ELSE BAND_2

\* The arguments of a resolver call; NoCall when the last step made none.
NoCall == [band |-> NO_BAND - 1, level |-> LOW]
Calls  == [band : {NO_BAND, BAND_1, BAND_2, BOTH_BANDS}, level : BOOLEAN]

VARIABLES
    \* ---- the inputs
    micPtt,         \* TRUE while the operator keys the radio by hand
    radioKeyed,     \* TRUE while the radio's PTT line is held by K4 (TX_KEY)
    rtsPin,         \* level of the RTS pin
    lnaOnPin,       \* per band: level of the LNAn_ON contact (LOW = forced on)
    lnaOffPin,      \* per band: level of the LNAn_OFF contact (LOW = forced off)
    \* ---- the outputs
    txKey,          \* level of TX_KEY
    ampRelay,       \* level of AMP_RELAY
    lnaRelay,       \* per band: level of LNAn_RELAY
    txLed,          \* per band: level of TXn_LED
    \* ---- the globals of the sketch
    txState, oldTxState, rtsState, pttState,
    lna_ForcedOn, lna_ForcedOff, tx_LedState,
    \* ---- the position of the program
    pc,             \* the line the main program is at
    i,              \* loop counter of SetReceive's confirmation loop
    ret,            \* where SetReceive returns to
    attached,       \* TRUE once attachInterrupt has run
    moves,          \* how many times a mode switch has been moved
    pttIrq, rtsIrq, \* an edge of the pin is waiting for its handler
    \* ---- history of the current step or call, for stating the claims
    call,           \* the resolver call made by the last step, or NoCall
    lnaCmd,         \* per band: the levels the last step wrote to the relay
    again,          \* the last step repeated the resolver call of the step before
    srExit,         \* how the last SetReceive ended: none, rts, ptt, done
    srIn,           \* the relay levels when SetReceive was entered
    srAllPtt,       \* every PTT read of this SetReceive so far read active
    \* ---- the FT-891 sequencer (Version 1.4): inputs, outputs, globals, position
    ft_txGround,    \* level of the TX_GROUND pin (the radio's PTT indication)
    ft_lnaOn,       \* level of the LNA_ON contact (LOW = forced on)
    ft_lnaOff,      \* level of the LNA_OFF contact (LOW = forced off)
    ft_txInh,       \* level of TX_INH
    ft_txLed,       \* level of TX_LED
    ft_ampRelay,    \* level of AMP_RELAY
    ft_lnaRelay,    \* level of LNA_RELAY
    ft_txState, ft_oldTxState,
    lnaForcedOn, lnaForcedOff, txLedState,
    ft_pc,          \* the line the main program is at
    ft_attached,    \* TRUE once attachInterrupt has run
    ft_irq,         \* an edge of TX_GROUND is waiting for TxInterrupt
    ft_moves,       \* how many times the mode switch has been moved
    \* ---- the FT-891 sequencer (Version 1.1): inputs, outputs, globals, position
    v11_txGround,   \* level of the TX_GROUND pin (the radio's PTT indication)
    v11_preampSwitch, \* level of the PREAMP_SWITCH pin (HIGH = preamp enabled)
    v11_txInh,      \* level of TX_INH
    v11_inhLed,     \* level of TX_INH_LED
    v11_txLed,      \* level of TX_LED
    v11_ampRelay,   \* level of AMP_RELAY
    v11_preampRelay, \* level of PREAMP_RELAY
    v11_txState, v11_oldTxState,
    preampEnabled,
    v11_pc,         \* the line the main program is at
    v11_attached,   \* TRUE once attachInterrupt has run
    v11_irq,        \* an edge of TX_GROUND is waiting for TxInterrupt
    v11_moves       \* how many times the preamp switch has been moved

inputs  == <<micPtt, radioKeyed, rtsPin, lnaOnPin, lnaOffPin>>
outputs == <<txKey, ampRelay, lnaRelay, txLed>>
globals == <<txState, oldTxState, rtsState, pttState,
             lna_ForcedOn, lna_ForcedOff, tx_LedState>>
control == <<pc, i, ret, attached, pttIrq, rtsIrq>>
world   == <<moves>>
history == <<call, lnaCmd, again, srExit, srIn, srAllPtt>>
ic9700  == <<inputs, outputs, globals, control, world, history>>
ft891   == <<ft_txGround, ft_lnaOn, ft_lnaOff, ft_txInh, ft_txLed, ft_ampRelay,
             ft_lnaRelay, ft_txState, ft_oldTxState, lnaForcedOn, lnaForcedOff,
             txLedState, ft_pc, ft_attached, ft_irq, ft_moves>>
ft891v11 == <<v11_txGround, v11_preampSwitch, v11_txInh, v11_inhLed, v11_txLed,
              v11_ampRelay, v11_preampRelay, v11_txState, v11_oldTxState,
              preampEnabled, v11_pc, v11_attached, v11_irq, v11_moves>>
vars    == <<ic9700, ft891, ft891v11>>

\* The FT-891 sequencer is a separate device: while the IC-9700 sequencer is
\* examined it is left switched off, in the state of its reset.
FT_Off ==
    /\ ft_txGround = HIGH /\ ft_lnaOn = HIGH /\ ft_lnaOff = HIGH
    /\ ft_txInh = HIGH /\ ft_txLed = HIGH
    /\ ft_ampRelay = HIGH /\ ft_lnaRelay = LOW
    /\ ft_txState = HIGH /\ ft_oldTxState = HIGH
    /\ lnaForcedOn = FALSE /\ lnaForcedOff = FALSE /\ txLedState = FALSE
    /\ ft_pc = "off" /\ ft_attached = FALSE /\ ft_irq = FALSE /\ ft_moves = 0

\* So is the FT-891 sequencer that runs the Version 1.1 firmware.
V11_Off ==
    /\ v11_txGround = HIGH /\ v11_preampSwitch = HIGH
    /\ v11_txInh = HIGH /\ v11_inhLed = HIGH /\ v11_txLed = HIGH
    /\ v11_ampRelay = HIGH /\ v11_preampRelay = HIGH
    /\ v11_txState = HIGH /\ v11_oldTxState = HIGH
    /\ preampEnabled = FALSE
    /\ v11_pc = "off" /\ v11_attached = FALSE /\ v11_irq = FALSE /\ v11_moves = 0

\* digitalRead ( PTT ): the line is pulled low by the microphone switch or by
\* the radio keyed through K4 (comment of lines 326-331).
PttPin == IF micPtt \/ radioKeyed THEN PTT_ACTIVE ELSE ~PTT_ACTIVE

NoCmd == [b \in Bands |-> <<>>]
NoSnap == [amp |-> AMP_OFF, lna |-> [b \in Bands |-> LNA_TX]]
Snap == [amp |-> ampRelay, lna |-> lnaRelay]

\* A step that calls no resolver.
NoResolve == call' = NoCall /\ lnaCmd' = NoCmd /\ again' = FALSE
\* A step outside SetReceive forgets the record of the last SetReceive call.
KeepSR    == UNCHANGED <<srExit, srIn, srAllPtt>>
ClearSR   == srExit' = "none" /\ srIn' = NoSnap /\ srAllPtt' = FALSE

----------------------------------------------------------------------------
(* The LNA resolver, SwitchPreamp (lines 599-694).                         *)

\* The test "whichBand && BAND_n" of lines 601 and 652: a logical and.
Selected(whichBand, b) == (whichBand # 0) /\ (BandSel(b) # 0)

\* The level a sequenced band gets (lines 636-640 and 687-691).
SeqLevel_IgnoresTx(newState, tx) == newState
SeqLevel(newState, tx) ==
    IF (newState = LNA_RX) /\ (tx = TX_OFF) THEN LNA_RX ELSE LNA_TX

\* The writes one band's block makes to its relay, in order, given the levels
\* read from its two contacts (lines 610-641 and 661-692).
LnaWrites_Toggle(onPin, offPin, newState, tx, old) == << ~old >>
LnaWrites_NoForcedOff(onPin, offPin, newState, tx, old) ==
    IF ~onPin THEN << LNA_RX >> ELSE << SeqLevel(newState, tx) >>
LnaWrites(onPin, offPin, newState, tx, old) ==
    LET forcedOn  == ~onPin
        forcedOff == ~offPin
    IN  (IF forcedOn  THEN << LNA_RX >> ELSE << >>)
     \o (IF forcedOff THEN << LNA_TX >> ELSE << >>)
     \o (IF ~forcedOn /\ ~forcedOff THEN << SeqLevel(newState, tx) >> ELSE << >>)

Last(s) == s[Len(s)]
Range(s) == {s[k] : k \in 1..Len(s)}

SwitchPreamp(whichBand, newState) ==
    /\ lna_ForcedOn'  = [b \in Bands |->
          IF Selected(whichBand, b) THEN ~lnaOnPin[b] ELSE lna_ForcedOn[b]]
    /\ lna_ForcedOff' = [b \in Bands |->
          IF Selected(whichBand, b) THEN ~lnaOffPin[b] ELSE lna_ForcedOff[b]]
    /\ lnaCmd' = [b \in Bands |->
          IF Selected(whichBand, b)
          THEN LnaWrites(lnaOnPin[b], lnaOffPin[b], newState, txState, lnaRelay[b])
          ELSE << >>]
    /\ lnaRelay' = [b \in Bands |->
          IF lnaCmd'[b] # << >> THEN Last(lnaCmd'[b]) ELSE lnaRelay[b]]
    /\ call' = [band |-> whichBand, level |-> newState]
    /\ again' = (call = [band |-> whichBand, level |-> newState])

----------------------------------------------------------------------------
(* The main program runs only while no edge waits for its handler: an      *)
(* interrupt preempts it.                                                  *)
Main(at) == pc = at /\ ~pttIrq /\ ~rtsIrq

(* setup (lines 190-283).                                                  *)

Setup_207 ==
    /\ Main("S207")
    /\ txKey' = TX_OFF
    /\ txState' = TX_OFF
    /\ pc' = "S217"
    /\ NoResolve /\ ClearSR
    /\ UNCHANGED <<ft891, ft891v11, inputs, ampRelay, lnaRelay, txLed, oldTxState, rtsState, pttState,
                   lna_ForcedOn, lna_ForcedOff, tx_LedState, i, ret, attached,
                   pttIrq, rtsIrq, moves>>

Setup_217 ==
    /\ Main("S217")
    /\ ampRelay' = AMP_OFF
    /\ pc' = "S234"
    /\ NoResolve /\ ClearSR
    /\ UNCHANGED <<ft891, ft891v11, inputs, txKey, lnaRelay, txLed, globals, i, ret, attached,
                   pttIrq, rtsIrq, moves>>

Setup_234 ==
    /\ Main("S234")
    /\ SwitchPreamp(BOTH_BANDS, LNA_RX)
    /\ pc' = "S252"
    /\ ClearSR
    /\ UNCHANGED <<ft891, ft891v11, inputs, txKey, ampRelay, txLed, txState, oldTxState, rtsState,
                   pttState, tx_LedState, i, ret, attached, pttIrq, rtsIrq, moves>>

Setup_252 ==
    /\ Main("S252")
    /\ rtsState' = rtsPin
    /\ pc' = "S253"
    /\ NoResolve /\ ClearSR
    /\ UNCHANGED <<ft891, ft891v11, inputs, outputs, txState, oldTxState, pttState,
                   lna_ForcedOn, lna_ForcedOff, tx_LedState, i, ret, attached,
                   pttIrq, rtsIrq, moves>>

Setup_253_SetsTx ==
    /\ Main("S253")
    /\ pttState' = PttPin
    /\ txState' = PttPin
    /\ pc' = "S270"
    /\ NoResolve /\ ClearSR
    /\ UNCHANGED <<ft891, ft891v11, inputs, outputs, oldTxState, rtsState,
                   lna_ForcedOn, lna_ForcedOff, tx_LedState, i, ret, attached,
                   pttIrq, rtsIrq, moves>>
Setup_253 ==
    /\ Main("S253")
    /\ pttState' = PttPin
    /\ pc' = "S270"
    /\ NoResolve /\ ClearSR
    /\ UNCHANGED <<ft891, ft891v11, inputs, outputs, txState, oldTxState, rtsState,
                   lna_ForcedOn, lna_ForcedOff, tx_LedState, i, ret, attached,
                   pttIrq, rtsIrq, moves>>

Setup_270 ==
    /\ Main("S270")
    /\ attached' = TRUE
    /\ pc' = "L288"
    /\ NoResolve /\ ClearSR
    /\ UNCHANGED <<ft891, ft891v11, inputs, outputs, globals, i, ret, pttIrq, rtsIrq, moves>>

Setup == Setup_207 \/ Setup_217 \/ Setup_234 \/ Setup_252 \/ Setup_253 \/ Setup_270

----------------------------------------------------------------------------
(* CheckBlink (lines 514-548), for one band: the new tx_LedState and LED.  *)
BlinkState(b) ==
    IF (txState = TX_OFF) /\ lna_ForcedOn[b] THEN ~tx_LedState[b] ELSE tx_LedState[b]
BlinkLed_ForcesOff(b) ==
    IF (txState = TX_OFF) /\ lna_ForcedOn[b] THEN ~tx_LedState[b] ELSE LED_OFF
BlinkLed_InTransmit(b) ==
    IF lna_ForcedOn[b] THEN ~txLed[b]
    ELSE IF txState = TX_OFF THEN LED_OFF
    ELSE txLed[b]
BlinkLed(b) ==
    IF (txState = TX_OFF) /\ lna_ForcedOn[b] THEN ~tx_LedState[b]
    ELSE IF txState = TX_OFF THEN LED_OFF
    ELSE txLed[b]

(* loop (lines 286-369).                                                   *)

\* Line 288: CheckBlink. onMark says whether millis () % 100 is 0. When it is,
\* CheckBlink ends with delay ( 2 ), after which millis () % 50 is not 0, and
\* the test of line 296 fails.
Loop_288 ==
    /\ Main("L288")
    /\ \E onMark \in BOOLEAN :
         IF onMark
         THEN /\ tx_LedState' = [b \in Bands |-> BlinkState(b)]
              /\ txLed' = [b \in Bands |-> BlinkLed(b)]
              /\ pc' = "L307"
         ELSE /\ UNCHANGED <<tx_LedState, txLed>>
              /\ pc' = "L296"
    /\ NoResolve /\ ClearSR
    /\ UNCHANGED <<ft891, ft891v11, inputs, txKey, ampRelay, lnaRelay, txState, oldTxState, rtsState,
                   pttState, lna_ForcedOn, lna_ForcedOff, i, ret, attached,
                   pttIrq, rtsIrq, moves>>

\* Lines 296-297: the resolver runs when millis () % 50 is 0.
Loop_296_NoBand ==
    /\ Main("L296")
    /\ \E onMark \in BOOLEAN :
         IF onMark
         THEN SwitchPreamp(NO_BAND, LNA_RX)
         ELSE NoResolve /\ UNCHANGED <<lnaRelay, lna_ForcedOn, lna_ForcedOff>>
    /\ pc' = "L307"
    /\ ClearSR
    /\ UNCHANGED <<ft891, ft891v11, inputs, txKey, ampRelay, txLed, txState, oldTxState, rtsState,
                   pttState, tx_LedState, i, ret, attached, pttIrq, rtsIrq, moves>>
Loop_296 ==
    /\ Main("L296")
    /\ \E onMark \in BOOLEAN :
         IF onMark
         THEN SwitchPreamp(BOTH_BANDS, LNA_RX)
         ELSE NoResolve /\ UNCHANGED <<lnaRelay, lna_ForcedOn, lna_ForcedOff>>
    /\ pc' = "L307"
    /\ ClearSR
    /\ UNCHANGED <<ft891, ft891v11, inputs, txKey, ampRelay, txLed, txState, oldTxState, rtsState,
                   pttState, tx_LedState, i, ret, attached, pttIrq, rtsIrq, moves>>

\* The desired state of lines 307-308 and of lines 310-311.
DesiredOn_BothActive(tx, ptt, rts) ==
    IF (ptt = PTT_ACTIVE) /\ (rts = RTS_ACTIVE) THEN TX_ON ELSE tx
DesiredOn(tx, ptt, rts) ==
    IF (ptt = PTT_ACTIVE) \/ (rts = RTS_ACTIVE) THEN TX_ON ELSE tx
DesiredOff(tx, ptt, rts) ==
    IF (ptt # PTT_ACTIVE) /\ (rts # RTS_ACTIVE) THEN TX_OFF ELSE tx

Loop_307 ==
    /\ Main("L307")
    /\ txState' = DesiredOn(txState, pttState, rtsState)
    /\ pc' = "L310"
    /\ NoResolve /\ ClearSR
    /\ UNCHANGED <<ft891, ft891v11, inputs, outputs, oldTxState, rtsState, pttState,
                   lna_ForcedOn, lna_ForcedOff, tx_LedState, i, ret, attached,
                   pttIrq, rtsIrq, moves>>

Loop_310 ==
    /\ Main("L310")
    /\ txState' = DesiredOff(txState, pttState, rtsState)
    /\ pc' = "L321"
    /\ NoResolve /\ ClearSR
    /\ UNCHANGED <<ft891, ft891v11, inputs, outputs, oldTxState, rtsState, pttState,
                   lna_ForcedOn, lna_ForcedOff, tx_LedState, i, ret, attached,
                   pttIrq, rtsIrq, moves>>

\* Entering SetReceive from the call site that returns to `site`.
EnterSetReceive(site) ==
    /\ pc' = "R440"
    /\ ret' = site
    /\ srExit' = "none"
    /\ srIn' = Snap
    /\ srAllPtt' = TRUE

\* Lines 321-322.
Loop_321 ==
    /\ Main("L321")
    /\ IF (pttState = PTT_ACTIVE) /\ (rtsState # RTS_ACTIVE)
       THEN EnterSetReceive("L333")
       ELSE pc' = "L333" /\ ClearSR /\ UNCHANGED ret
    /\ NoResolve
    /\ UNCHANGED <<ft891, ft891v11, inputs, outputs, globals, i, attached, pttIrq, rtsIrq, moves>>

\* Lines 333-343.
Loop_333_KeepsLeds ==
    /\ Main("L333")
    /\ pc' = "L353"
    /\ NoResolve /\ ClearSR
    /\ UNCHANGED <<ft891, ft891v11, inputs, outputs, globals, i, ret, attached,
                   pttIrq, rtsIrq, moves>>
Loop_333 ==
    /\ Main("L333")
    /\ txLed' = [b \in Bands |-> IF PttPin = PTT_ACTIVE THEN LED_ON ELSE LED_OFF]
    /\ pc' = "L353"
    /\ NoResolve /\ ClearSR
    /\ UNCHANGED <<ft891, ft891v11, inputs, txKey, ampRelay, lnaRelay, globals, i, ret, attached,
                   pttIrq, rtsIrq, moves>>

\* Lines 353-368.
Loop_353 ==
    /\ Main("L353")
    /\ IF txState # oldTxState
       THEN IF txState = TX_ON
            THEN pc' = "T385" /\ ClearSR /\ UNCHANGED ret
            ELSE EnterSetReceive("L288")
       ELSE pc' = "L288" /\ ClearSR /\ UNCHANGED ret
    /\ NoResolve
    /\ UNCHANGED <<ft891, ft891v11, inputs, outputs, globals, i, attached, pttIrq, rtsIrq, moves>>

Loop == Loop_288 \/ Loop_296 \/ Loop_307 \/ Loop_310 \/ Loop_321 \/ Loop_333 \/ Loop_353

----------------------------------------------------------------------------
(* SetTransmit (lines 383-421).                                            *)

SetTransmit_385_NoSwitch ==
    /\ Main("T385")
    /\ pc' = "T394"
    /\ NoResolve /\ ClearSR
    /\ UNCHANGED <<ft891, ft891v11, inputs, outputs, globals, i, ret, attached, pttIrq, rtsIrq, moves>>
SetTransmit_385 ==
    /\ Main("T385")
    /\ SwitchPreamp(BOTH_BANDS, LNA_TX)
    /\ pc' = "T394"
    /\ ClearSR
    /\ UNCHANGED <<ft891, ft891v11, inputs, txKey, ampRelay, txLed, txState, oldTxState, rtsState,
                   pttState, tx_LedState, i, ret, attached, pttIrq, rtsIrq, moves>>

\* Line 394, after delay ( LNA_ON_DLY ).
SetTransmit_394_NoAmp ==
    /\ Main("T394")
    /\ pc' = "T409"
    /\ NoResolve /\ ClearSR
    /\ UNCHANGED <<ft891, ft891v11, inputs, outputs, globals, i, ret, attached, pttIrq, rtsIrq, moves>>
SetTransmit_394 ==
    /\ Main("T394")
    /\ ampRelay' = AMP_ON
    /\ pc' = "T409"
    /\ NoResolve /\ ClearSR
    /\ UNCHANGED <<ft891, ft891v11, inputs, txKey, lnaRelay, txLed, globals, i, ret, attached,
                   pttIrq, rtsIrq, moves>>

SetTransmit_409_AlwaysKeys ==
    /\ Main("T409")
    /\ txKey' = TX_ON
    /\ pc' = "T420"
    /\ NoResolve /\ ClearSR
    /\ UNCHANGED <<ft891, ft891v11, inputs, ampRelay, lnaRelay, txLed, globals, i, ret, attached,
                   pttIrq, rtsIrq, moves>>
SetTransmit_409 ==
    /\ Main("T409")
    /\ pc' = IF rtsState = RTS_ACTIVE THEN "T412" ELSE "T420"
    /\ NoResolve /\ ClearSR
    /\ UNCHANGED <<ft891, ft891v11, inputs, outputs, globals, i, ret, attached, pttIrq, rtsIrq, moves>>

\* Line 412, after delay ( PTT_ON_DELAY ).
SetTransmit_412 ==
    /\ Main("T412")
    /\ txKey' = TX_ON
    /\ pc' = "T420"
    /\ NoResolve /\ ClearSR
    /\ UNCHANGED <<ft891, ft891v11, inputs, ampRelay, lnaRelay, txLed, globals, i, ret, attached,
                   pttIrq, rtsIrq, moves>>

SetTransmit_420 ==
    /\ Main("T420")
    /\ oldTxState' = TX_ON
    /\ txState' = TX_ON
    /\ pc' = "L288"
    /\ NoResolve /\ ClearSR
    /\ UNCHANGED <<ft891, ft891v11, inputs, outputs, rtsState, pttState, lna_ForcedOn, lna_ForcedOff,
                   tx_LedState, i, ret, attached, pttIrq, rtsIrq, moves>>

SetTransmit == SetTransmit_385 \/ SetTransmit_394 \/ SetTransmit_409
                  \/ SetTransmit_412 \/ SetTransmit_420

----------------------------------------------------------------------------
(* SetReceive (lines 438-500).                                             *)

\* Returning from SetReceive to the call site.
ReturnSetReceive(how) ==
    /\ pc' = ret
    /\ srExit' = how
    /\ srIn' = NoSnap
    /\ UNCHANGED ret

\* Lines 440-444.
SetReceive_440_NoHold ==
    /\ Main("R440")
    /\ pc' = "R459"
    /\ NoResolve
    /\ UNCHANGED <<ft891, ft891v11, inputs, outputs, globals, i, ret, attached, pttIrq, rtsIrq, moves,
                   srExit, srIn, srAllPtt>>
SetReceive_440 ==
    /\ Main("R440")
    /\ IF rtsPin = RTS_ACTIVE
       THEN txState' = TX_ON /\ ReturnSetReceive("rts")
       ELSE pc' = "R459" /\ UNCHANGED <<txState, ret, srExit, srIn>>
    /\ NoResolve
    /\ UNCHANGED <<ft891, ft891v11, inputs, outputs, oldTxState, rtsState, pttState, lna_ForcedOn,
                   lna_ForcedOff, tx_LedState, i, attached, pttIrq, rtsIrq, moves, srAllPtt>>

\* Lines 459-460: the loop is entered when the PTT input reads active.
SetReceive_459 ==
    /\ Main("R459")
    /\ pc' = IF (PttPin = PTT_ACTIVE) /\ (0 < PTT_OFF_DELAY) THEN "R462" ELSE "R468"
    /\ i' = 0
    /\ srAllPtt' = (srAllPtt /\ (PttPin = PTT_ACTIVE))
    /\ NoResolve
    /\ UNCHANGED <<ft891, ft891v11, inputs, outputs, globals, ret, attached, pttIrq, rtsIrq, moves,
                   srExit, srIn>>

\* Lines 462-465, and the i++ and test of line 460: one turn of the loop,
\* delay ( 1 ), TX_KEY written off, and the PTT input read again.
SetReceive_462_NoBreak ==
    /\ Main("R462")
    /\ txKey' = TX_OFF
    /\ IF i + 1 < PTT_OFF_DELAY
       THEN pc' = "R462" /\ i' = i + 1
       ELSE pc' = "R468" /\ i' = 0
    /\ srAllPtt' = (srAllPtt /\ (PttPin = PTT_ACTIVE))
    /\ NoResolve
    /\ UNCHANGED <<ft891, ft891v11, inputs, ampRelay, lnaRelay, txLed, globals, ret, attached,
                   pttIrq, rtsIrq, moves, srExit, srIn>>
SetReceive_462_KeepsKey ==
    /\ Main("R462")
    /\ IF PttPin # PTT_ACTIVE
       THEN pc' = "R468" /\ i' = 0
       ELSE IF i + 1 < PTT_OFF_DELAY
            THEN pc' = "R462" /\ i' = i + 1
            ELSE pc' = "R468" /\ i' = 0
    /\ srAllPtt' = (srAllPtt /\ (PttPin = PTT_ACTIVE))
    /\ NoResolve
    /\ UNCHANGED <<ft891, ft891v11, inputs, outputs, globals, ret, attached,
                   pttIrq, rtsIrq, moves, srExit, srIn>>
SetReceive_462 ==
    /\ Main("R462")
    /\ txKey' = TX_OFF
    /\ IF PttPin # PTT_ACTIVE
       THEN pc' = "R468" /\ i' = 0
       ELSE IF i + 1 < PTT_OFF_DELAY
            THEN pc' = "R462" /\ i' = i + 1
            ELSE pc' = "R468" /\ i' = 0
    /\ srAllPtt' = (srAllPtt /\ (PttPin = PTT_ACTIVE))
    /\ NoResolve
    /\ UNCHANGED <<ft891, ft891v11, inputs, ampRelay, lnaRelay, txLed, globals, ret, attached,
                   pttIrq, rtsIrq, moves, srExit, srIn>>

\* Lines 468-472.
SetReceive_468_KeepsState ==
    /\ Main("R468")
    /\ IF PttPin = PTT_ACTIVE
       THEN ReturnSetReceive("ptt")
       ELSE pc' = "R479" /\ UNCHANGED <<ret, srExit, srIn>>
    /\ srAllPtt' = (srAllPtt /\ (PttPin = PTT_ACTIVE))
    /\ NoResolve
    /\ UNCHANGED <<ft891, ft891v11, inputs, outputs, globals, i, attached, pttIrq, rtsIrq, moves>>
SetReceive_468 ==
    /\ Main("R468")
    /\ IF PttPin = PTT_ACTIVE
       THEN txState' = TX_ON /\ ReturnSetReceive("ptt")
       ELSE pc' = "R479" /\ UNCHANGED <<txState, ret, srExit, srIn>>
    /\ srAllPtt' = (srAllPtt /\ (PttPin = PTT_ACTIVE))
    /\ NoResolve
    /\ UNCHANGED <<ft891, ft891v11, inputs, outputs, oldTxState, rtsState, pttState, lna_ForcedOn,
                   lna_ForcedOff, tx_LedState, i, attached, pttIrq, rtsIrq, moves>>

\* Lines 479-480.
SetReceive_479 ==
    /\ Main("R479")
    /\ txLed' = [b \in Bands |-> LED_OFF]
    /\ pc' = "R482"
    /\ NoResolve /\ KeepSR
    /\ UNCHANGED <<ft891, ft891v11, inputs, txKey, ampRelay, lnaRelay, globals, i, ret, attached,
                   pttIrq, rtsIrq, moves>>

\* Line 482.
SetReceive_482_KeepsAmp ==
    /\ Main("R482")
    /\ pc' = "R492"
    /\ NoResolve /\ KeepSR
    /\ UNCHANGED <<ft891, ft891v11, inputs, outputs, globals, i, ret, attached, pttIrq, rtsIrq, moves>>
SetReceive_482 ==
    /\ Main("R482")
    /\ ampRelay' = AMP_OFF
    /\ pc' = "R492"
    /\ NoResolve /\ KeepSR
    /\ UNCHANGED <<ft891, ft891v11, inputs, txKey, lnaRelay, txLed, globals, i, ret, attached,
                   pttIrq, rtsIrq, moves>>

\* Line 492, after delay ( AMP_OFF_DLY ) and delay ( LNA_ON_DLY ).
SetReceive_492 ==
    /\ Main("R492")
    /\ SwitchPreamp(BOTH_BANDS, LNA_RX)
    /\ pc' = "R499"
    /\ KeepSR
    /\ UNCHANGED <<ft891, ft891v11, inputs, txKey, ampRelay, txLed, txState, oldTxState, rtsState,
                   pttState, tx_LedState, i, ret, attached, pttIrq, rtsIrq, moves>>

\* Line 499.
SetReceive_499 ==
    /\ Main("R499")
    /\ oldTxState' = TX_OFF
    /\ txState' = TX_OFF
    /\ ReturnSetReceive("done")
    /\ NoResolve
    /\ UNCHANGED <<ft891, ft891v11, inputs, outputs, rtsState, pttState, lna_ForcedOn, lna_ForcedOff,
                   tx_LedState, i, attached, pttIrq, rtsIrq, moves, srAllPtt>>

SetReceive == SetReceive_440 \/ SetReceive_459 \/ SetReceive_462
                 \/ SetReceive_468 \/ SetReceive_479 \/ SetReceive_482
                 \/ SetReceive_492 \/ SetReceive_499

----------------------------------------------------------------------------
(* The edge handlers (lines 562-573). attachInterrupt ( ..., CHANGE ) of    *)
(* lines 270-271 makes every change of the pin's level call the handler.   *)

PTT_ISR_NoIgnore ==
    /\ pttIrq
    /\ pttIrq' = FALSE
    /\ pttState' = PttPin
    /\ NoResolve /\ KeepSR
    /\ UNCHANGED <<ft891, ft891v11, inputs, outputs, txState, oldTxState, rtsState, lna_ForcedOn,
                   lna_ForcedOff, tx_LedState, pc, i, ret, attached, rtsIrq, moves>>
PTT_ISR ==
    /\ pttIrq
    /\ pttIrq' = FALSE
    /\ pttState' = IF rtsState = RTS_ACTIVE THEN pttState ELSE PttPin
    /\ NoResolve /\ KeepSR
    /\ UNCHANGED <<ft891, ft891v11, inputs, outputs, txState, oldTxState, rtsState, lna_ForcedOn,
                   lna_ForcedOff, tx_LedState, pc, i, ret, attached, rtsIrq, moves>>

RTS_ISR_SetsTx ==
    /\ rtsIrq
    /\ rtsIrq' = FALSE
    /\ rtsState' = rtsPin
    /\ txState' = IF rtsPin = RTS_ACTIVE THEN TX_ON ELSE TX_OFF
    /\ NoResolve /\ KeepSR
    /\ UNCHANGED <<ft891, ft891v11, inputs, outputs, oldTxState, pttState, lna_ForcedOn,
                   lna_ForcedOff, tx_LedState, pc, i, ret, attached, pttIrq, moves>>
RTS_ISR ==
    /\ rtsIrq
    /\ rtsIrq' = FALSE
    /\ rtsState' = rtsPin
    /\ NoResolve /\ KeepSR
    /\ UNCHANGED <<ft891, ft891v11, inputs, outputs, txState, oldTxState, pttState, lna_ForcedOn,
                   lna_ForcedOff, tx_LedState, pc, i, ret, attached, pttIrq, moves>>

----------------------------------------------------------------------------
(* The world around the sequencer. A change of a trigger input is served  *)
(* by its handler before anything else happens.                           *)
Served == ~pttIrq /\ ~rtsIrq

\* A change of the PTT line raises the PTT interrupt once it is attached.
PttEdge == pttIrq' = (pttIrq \/ (attached /\ PttPin' # PttPin))

\* The operator presses or releases the microphone PTT.
MicPress ==
    /\ Served
    /\ ~micPtt
    /\ micPtt' = TRUE
    /\ NoResolve /\ KeepSR
    /\ UNCHANGED <<ft891, ft891v11, radioKeyed, rtsPin, lnaOnPin, lnaOffPin, outputs, globals,
                   pc, i, ret, attached, rtsIrq, moves>>
    /\ PttEdge

MicRelease ==
    /\ Served
    /\ micPtt
    /\ micPtt' = FALSE
    /\ NoResolve /\ KeepSR
    /\ UNCHANGED <<ft891, ft891v11, radioKeyed, rtsPin, lnaOnPin, lnaOffPin, outputs, globals,
                   pc, i, ret, attached, rtsIrq, moves>>
    /\ PttEdge

\* K4 and the radio follow TX_KEY after a while (comment of lines 377-380).
RadioFollows ==
    /\ Served
    /\ radioKeyed # (txKey = TX_ON)
    /\ radioKeyed' = (txKey = TX_ON)
    /\ NoResolve /\ KeepSR
    /\ UNCHANGED <<ft891, ft891v11, micPtt, rtsPin, lnaOnPin, lnaOffPin, outputs, globals,
                   pc, i, ret, attached, rtsIrq, moves>>
    /\ PttEdge

\* The control program or the footswitch raises or drops RTS.
RtsPress ==
    /\ Served
    /\ rtsPin # RTS_ACTIVE
    /\ rtsPin' = RTS_ACTIVE
    /\ rtsIrq' = (rtsIrq \/ attached)
    /\ NoResolve /\ KeepSR
    /\ UNCHANGED <<ft891, ft891v11, micPtt, radioKeyed, lnaOnPin, lnaOffPin, outputs, globals,
                   pc, i, ret, attached, pttIrq, moves>>

RtsRelease ==
    /\ Served
    /\ rtsPin = RTS_ACTIVE
    /\ rtsPin' = ~RTS_ACTIVE
    /\ rtsIrq' = (rtsIrq \/ attached)
    /\ NoResolve /\ KeepSR
    /\ UNCHANGED <<ft891, ft891v11, micPtt, radioKeyed, lnaOnPin, lnaOffPin, outputs, globals,
                   pc, i, ret, attached, pttIrq, moves>>

\* The operator moves the mode switch of a band: its two contacts change.
ContactChange ==
    /\ Served
    /\ moves < MaxMoves
    /\ moves' = moves + 1
    /\ \E b \in Bands, on \in BOOLEAN, off \in BOOLEAN :
          /\ <<on, off>> # <<lnaOnPin[b], lnaOffPin[b]>>
          /\ lnaOnPin'  = [lnaOnPin  EXCEPT ![b] = on]
          /\ lnaOffPin' = [lnaOffPin EXCEPT ![b] = off]
    /\ NoResolve /\ KeepSR
    /\ UNCHANGED <<ft891, ft891v11, micPtt, radioKeyed, rtsPin, outputs, globals, control>>

----------------------------------------------------------------------------
(* Power-up: the globals as initialised by lines 170-182, the relays not   *)
(* yet driven (LNAs in bypass, amplifier off, lines 200-202), and the      *)
(* inputs at any level.                                                    *)
Init ==
    /\ micPtt \in BOOLEAN
    /\ radioKeyed = FALSE
    /\ rtsPin \in BOOLEAN
    /\ lnaOnPin \in [Bands -> BOOLEAN]
    /\ lnaOffPin \in [Bands -> BOOLEAN]
    /\ txKey = TX_OFF
    /\ ampRelay = AMP_OFF
    /\ lnaRelay = [b \in Bands |-> LNA_TX]
    /\ txLed = [b \in Bands |-> LED_OFF]
    /\ txState = TX_OFF
    /\ oldTxState = TX_OFF
    /\ rtsState = ~RTS_ACTIVE
    /\ pttState = ~PTT_ACTIVE
    /\ lna_ForcedOn = [b \in Bands |-> FALSE]
    /\ lna_ForcedOff = [b \in Bands |-> FALSE]
    /\ tx_LedState = [b \in Bands |-> FALSE]
    /\ pc = "S207"
    /\ i = 0
    /\ ret = "L288"
    /\ attached = FALSE
    /\ pttIrq = FALSE
    /\ rtsIrq = FALSE
    /\ moves = 0
    /\ call = NoCall
    /\ lnaCmd = NoCmd
    /\ again = FALSE
    /\ srExit = "none"
    /\ srIn = NoSnap
    /\ srAllPtt = FALSE
    /\ FT_Off /\ V11_Off

Program == Setup \/ Loop \/ SetTransmit \/ SetReceive
Handlers == PTT_ISR \/ RTS_ISR
Triggers == MicPress \/ MicRelease \/ RadioFollows \/ RtsPress \/ RtsRelease

Next == Program \/ Handlers \/ Triggers \/ ContactChange

Spec == Init /\ [][Next]_vars

----------------------------------------------------------------------------
(* The sequencer with the mode switches left alone.                        *)
NextFixed == Program \/ Handlers \/ Triggers

SpecFixed == Init /\ [][NextFixed]_vars

----------------------------------------------------------------------------
(* Scenario B: the sequencer idles in receive, PTT never pressed by hand;  *)
(* RTS goes active while the sequencer polls, and stays active. The        *)
(* processor keeps running, pending edges are served and the radio follows *)
(* TX_KEY.                                                                 *)
InitRtsRun == Init /\ ~micPtt /\ rtsPin = ~RTS_ACTIVE

RtsGoesActive == attached /\ RtsPress

NextRtsRun == Setup \/ Loop \/ SetTransmit \/ Handlers \/ RadioFollows \/ RtsGoesActive

SpecRtsRun ==
    /\ InitRtsRun /\ [][NextRtsRun]_vars
    /\ WF_vars(Setup \/ Loop \/ SetTransmit)
    /\ WF_vars(Handlers)
    /\ WF_vars(RadioFollows)

(* RTS alone: the microphone PTT is never pressed and the PTT input        *)
(* follows TX_KEY. RTS goes active while the sequencer polls at rest in    *)
(* receive, and is released at any point after that.                       *)
Polling == pc \in {"L288", "L296", "L307", "L310", "L321", "L333", "L353"}

Resting ==
    /\ Polling
    /\ txState = TX_OFF /\ oldTxState = TX_OFF
    /\ pttState # PTT_ACTIVE /\ rtsState # RTS_ACTIVE
    /\ txKey = TX_OFF /\ ampRelay = AMP_OFF
    /\ PttPin # PTT_ACTIVE

RtsFromRest == Resting /\ RtsPress

NextRtsOnly == Program \/ Handlers \/ RadioFollows \/ RtsFromRest \/ RtsRelease

SpecRtsOnly ==
    /\ InitRtsRun /\ [][NextRtsOnly]_vars
    /\ WF_vars(Program)
    /\ WF_vars(Handlers)
    /\ WF_vars(RadioFollows)

(* Both trigger inputs, inactive until the handlers are attached, then     *)
(* pressed and released at any point; the mode switches are left alone;    *)
(* the processor keeps running, pending edges are served and the radio     *)
(* follows TX_KEY, and the clock keeps leaving the 100 ms mark of line 516 *)
(* and coming to the 50 ms mark of line 296.                               *)
TriggersAttached == attached /\ Triggers

\* CheckBlink off the 100 ms mark, and the poll of line 297 on a 50 ms mark.
BlinkOffMark == Loop_288 /\ pc' = "L296"
PollOnMark   == Loop_296 /\ call' # NoCall

NextTriggers == Program \/ Handlers \/ TriggersAttached

SpecTriggers ==
    /\ InitRtsRun /\ [][NextTriggers]_vars
    /\ WF_vars(Program)
    /\ WF_vars(Handlers)
    /\ WF_vars(RadioFollows)
    /\ SF_vars(BlinkOffMark)
    /\ SF_vars(PollOnMark)

(* Scenario E: band 1 forced on and band 2 sequenced, the mode switches    *)
(* left alone, and the trigger inputs pressed and released at any point.   *)
InitBandMix ==
    /\ Init
    /\ lnaOnPin = << LOW, HIGH >>
    /\ lnaOffPin = << HIGH, HIGH >>

SpecBandMix == InitBandMix /\ [][NextFixed]_vars

(* Scenario A: both bands sequenced and RTS never active; the operator     *)
(* presses the microphone PTT while the sequencer polls, and holds it.     *)
InitPttRun ==
    /\ Init /\ ~micPtt /\ rtsPin = ~RTS_ACTIVE
    /\ \A b \in Bands : lnaOnPin[b] = HIGH /\ lnaOffPin[b] = HIGH

PttGoesActive == attached /\ MicPress

\* The part of SetReceive that runs while PTT is held.
SetReceiveHeld == SetReceive_440 \/ SetReceive_459 \/ SetReceive_462 \/ SetReceive_468

\* The part of SetTransmit that runs when RTS is not active.
SetTransmitByPtt ==
    SetTransmit_385 \/ SetTransmit_394 \/ SetTransmit_409 \/ SetTransmit_420

NextPttRun ==
    Setup \/ Loop \/ SetTransmitByPtt \/ SetReceiveHeld \/ PTT_ISR \/ PttGoesActive

SpecPttRun ==
    /\ InitPttRun /\ [][NextPttRun]_vars
    /\ WF_vars(Setup \/ Loop \/ SetTransmitByPtt \/ SetReceiveHeld)
    /\ WF_vars(PTT_ISR)

----------------------------------------------------------------------------
(* The desired state of lines 307-311 on its own: any level of the two     *)
(* latches, of txState and oldTxState and of the two trigger inputs, and   *)
(* no edge in between the two tests.                                       *)
InitDesired ==
    /\ micPtt \in BOOLEAN
    /\ radioKeyed = FALSE
    /\ rtsPin \in BOOLEAN
    /\ lnaOnPin = [b \in Bands |-> HIGH]
    /\ lnaOffPin = [b \in Bands |-> HIGH]
    /\ txKey = TX_OFF
    /\ ampRelay = AMP_OFF
    /\ lnaRelay = [b \in Bands |-> LNA_RX]
    /\ txLed = [b \in Bands |-> LED_OFF]
    /\ txState \in BOOLEAN
    /\ oldTxState \in BOOLEAN
    /\ rtsState \in BOOLEAN
    /\ pttState \in BOOLEAN
    /\ lna_ForcedOn = [b \in Bands |-> FALSE]
    /\ lna_ForcedOff = [b \in Bands |-> FALSE]
    /\ tx_LedState = [b \in Bands |-> FALSE]
    /\ pc = "L307"
    /\ i = 0
    /\ ret = "L288"
    /\ attached = TRUE
    /\ pttIrq = FALSE
    /\ rtsIrq = FALSE
    /\ moves = 0
    /\ call = NoCall
    /\ lnaCmd = NoCmd
    /\ again = FALSE
    /\ srExit = "none"
    /\ srIn = NoSnap
    /\ srAllPtt = FALSE
    /\ FT_Off /\ V11_Off

NextDesired == Loop_307 \/ Loop_310

SpecDesired == InitDesired /\ [][NextDesired]_vars

----------------------------------------------------------------------------
(* The resolver on its own: any level of the contacts, of the relays, of   *)
(* the cached flags and of txState, and any call.                          *)
InitResolver ==
    /\ micPtt = FALSE
    /\ radioKeyed = FALSE
    /\ rtsPin = ~RTS_ACTIVE
    /\ lnaOnPin \in [Bands -> BOOLEAN]
    /\ lnaOffPin \in [Bands -> BOOLEAN]
    /\ txKey = TX_OFF
    /\ ampRelay \in BOOLEAN
    /\ lnaRelay \in [Bands -> BOOLEAN]
    /\ txLed = [b \in Bands |-> LED_OFF]
    /\ txState \in BOOLEAN
    /\ oldTxState = txState
    /\ rtsState = ~RTS_ACTIVE
    /\ pttState = ~PTT_ACTIVE
    /\ lna_ForcedOn \in [Bands -> BOOLEAN]
    /\ lna_ForcedOff \in [Bands -> BOOLEAN]
    /\ tx_LedState = [b \in Bands |-> FALSE]
    /\ pc = "resolver"
    /\ i = 0
    /\ ret = "L288"
    /\ attached = TRUE
    /\ pttIrq = FALSE
    /\ rtsIrq = FALSE
    /\ moves = 0
    /\ call = NoCall
    /\ lnaCmd = NoCmd
    /\ again = FALSE
    /\ srExit = "none"
    /\ srIn = NoSnap
    /\ srAllPtt = FALSE
    /\ FT_Off /\ V11_Off

Resolve ==
    /\ pc = "resolver"
    /\ \E c \in Calls : SwitchPreamp(c.band, c.level)
    /\ UNCHANGED <<ft891, ft891v11, inputs, txKey, ampRelay, txLed, txState, oldTxState, rtsState,
                   pttState, tx_LedState, control, world, srExit, srIn, srAllPtt>>

SpecResolver == InitResolver /\ [][Resolve]_vars

----------------------------------------------------------------------------
(* The claims about the Version 2.0 firmware.                              *)

\* A band's contacts as they are now.
ContactOn(b)  == lnaOnPin[b] = LOW
ContactOff(b) == lnaOffPin[b] = LOW
Sequenced(b)  == ~ContactOn(b) /\ ~ContactOff(b)
InSetReceive  == pc \in {"R440", "R459", "R462", "R468", "R479", "R482", "R492", "R499"}

\* C1, as claimed: whenever the amplifier relay is keyed, every band whose
\* forced-on contact is not asserted has its LNA relay in TRANSMIT, also when
\* a mode switch is moved at any point.
C1_KeyedAmpBypassesByContact ==
    (ampRelay = AMP_ON) =>
        \A b \in Bands : ~ContactOn(b) => (lnaRelay[b] = LNA_TX)

\* C1, amended: whenever the amplifier relay is keyed, every band that the
\* last run of the resolver found not forced on (lna_n_ForcedOn false) has
\* its LNA relay in TRANSMIT.
C1_KeyedAmpBypassesResolved ==
    (ampRelay = AMP_ON) =>
        \A b \in Bands : ~lna_ForcedOn[b] => (lnaRelay[b] = LNA_TX)

\* C1 witness: the amplifier is keyed after a mode switch was moved, with one
\* band in bypass and the other held in receive by its forced-on switch.
C1_Witness ==
    /\ ampRelay = AMP_ON
    /\ moves > 0
    /\ \E b \in Bands : ~lna_ForcedOn[b] /\ ~ContactOn(b) /\ lnaRelay[b] = LNA_TX
    /\ \E b \in Bands : lna_ForcedOn[b] /\ lnaRelay[b] = LNA_RX

\* The steps that key and un-key the amplifier, and a command of a level to
\* the LNA relay of band b by the step.
AmpKeyed    == ampRelay # AMP_ON /\ ampRelay' = AMP_ON
AmpUnkeyed  == ampRelay = AMP_ON /\ ampRelay' # AMP_ON
Commanded(b, level) == level \in Range(lnaCmd'[b])

\* C2, as claimed (mode switches left alone): SetTransmit commands the LNA
\* relays of all bands not forced on to TRANSMIT before it keys the amplifier;
\* SetReceive commands its LNA relays only after it has un-keyed the amplifier;
\* and no LNA relay at all is commanded to RECEIVE while the amplifier is keyed.
C2_OrderAllBands ==
    [][ /\ (pc = "T385" /\ pc' = "T394") =>
              /\ ampRelay' # AMP_ON
              /\ \A b \in Bands : ~ContactOn(b) => lnaCmd'[b] = << LNA_TX >>
        /\ AmpKeyed =>
              /\ pc = "T394"
              /\ \A b \in Bands : ~ContactOn(b) => lnaRelay[b] = LNA_TX
        /\ (pc = "R492" /\ pc' = "R499") => ampRelay # AMP_ON
        /\ \A b \in Bands : Commanded(b, LNA_RX) => ampRelay # AMP_ON ]_vars

\* C2, amended: as C2, but only the LNA relays of bands not forced on are
\* never commanded to RECEIVE while the amplifier is keyed (the relay of a
\* forced-on band is commanded to RECEIVE by every run of the resolver).
C2_OrderSequencedBands ==
    [][ /\ (pc = "T385" /\ pc' = "T394") =>
              /\ ampRelay' # AMP_ON
              /\ \A b \in Bands : ~ContactOn(b) => lnaCmd'[b] = << LNA_TX >>
        /\ AmpKeyed =>
              /\ pc = "T394"
              /\ \A b \in Bands : ~ContactOn(b) => lnaRelay[b] = LNA_TX
        /\ (pc = "R492" /\ pc' = "R499") => ampRelay # AMP_ON
        /\ \A b \in Bands :
              (Commanded(b, LNA_RX) /\ ~ContactOn(b)) => ampRelay # AMP_ON ]_vars

\* C2 witness: a receive-entry that began with the amplifier keyed has just
\* commanded a sequenced band's relay to RECEIVE.
C2_Witness ==
    /\ pc = "R499"
    /\ srIn.amp = AMP_ON /\ ampRelay = AMP_OFF
    /\ \E b \in Bands : Sequenced(b) /\ lnaCmd[b] = << LNA_RX >>

\* C3: the radio key line TX_KEY is asserted only while the amplifier relay
\* is keyed.
C3_KeyOnlyWhileAmpKeyed ==
    (txKey = TX_ON) => (ampRelay = AMP_ON)

KeyAsserted == txKey # TX_ON /\ txKey' = TX_ON
LedLit(b)   == txLed[b] # LED_ON /\ txLed'[b] = LED_ON
Bypassed    == \A b \in Bands : ~ContactOn(b) => lnaRelay[b] = LNA_TX

AllBypassed == \A b \in Bands : lnaRelay[b] = LNA_TX

\* C4, as claimed (scenario B): once RTS has gone active the LNA relays are in
\* TRANSMIT before the amplifier is keyed, the amplifier is keyed before
\* TX_KEY is asserted, a transmit LED is lit only after TX_KEY is asserted,
\* and all of it comes to pass and stays.
C4_RtsSequenceAllBands ==
    /\ [][ /\ AmpKeyed => AllBypassed
           /\ KeyAsserted => (ampRelay = AMP_ON /\ AllBypassed)
           /\ \A b \in Bands :
                 (rtsPin = RTS_ACTIVE /\ LedLit(b)) => txKey = TX_ON ]_vars
    /\ (rtsPin = RTS_ACTIVE) ~>
          [](/\ AllBypassed
             /\ ampRelay = AMP_ON
             /\ txKey = TX_ON
             /\ \A b \in Bands : txLed[b] = LED_ON)

\* C4, amended (scenario B): SetReceive is never entered, and once RTS has
\* gone active the outputs change in this order:
\* the LNA relays (of the bands not forced on) are in TRANSMIT before the
\* amplifier is keyed, the amplifier is keyed before TX_KEY is asserted, and
\* the transmit LEDs are lit only after TX_KEY is asserted (but for the blink
\* of a forced-on band in receive); and all of it comes to pass and stays.
C4_RtsSequence ==
    /\ [](~InSetReceive)
    /\ [][ /\ AmpKeyed => Bypassed
           /\ KeyAsserted => (ampRelay = AMP_ON /\ Bypassed)
           /\ \A b \in Bands :
                 (rtsPin = RTS_ACTIVE /\ LedLit(b)) =>
                    \/ txKey = TX_ON
                    \/ (pc = "L288" /\ lna_ForcedOn[b] /\ txState = TX_OFF) ]_vars
    /\ (rtsPin = RTS_ACTIVE) ~>
          [](/\ Bypassed
             /\ ampRelay = AMP_ON
             /\ txKey = TX_ON
             /\ \A b \in Bands : txLed[b] = LED_ON)

\* C4 witness: the sequence triggered by RTS is complete.
C4_Witness ==
    /\ rtsPin = RTS_ACTIVE /\ ~micPtt /\ pc = "L353"
    /\ txState = TX_ON /\ oldTxState = TX_ON
    /\ ampRelay = AMP_ON /\ txKey = TX_ON
    /\ \A b \in Bands : txLed[b] = LED_ON
    /\ \E b \in Bands : Sequenced(b) /\ lnaRelay[b] = LNA_TX

\* C5 (scenario A): TX_KEY is never asserted (the statement asserting it and
\* the switch back to receive are never reached), both LNA relays are in TRANSMIT
\* before the amplifier is keyed, and once PTT is pressed the amplifier ends
\* up keyed with both LNA relays in TRANSMIT and both transmit LEDs on.
C5_PttSequence ==
    /\ [](txKey = TX_OFF /\ pc \notin {"T412", "R479"})
    /\ [][ AmpKeyed => \A b \in Bands : lnaRelay[b] = LNA_TX ]_vars
    /\ micPtt ~>
          [](/\ \A b \in Bands : lnaRelay[b] = LNA_TX
             /\ ampRelay = AMP_ON
             /\ txKey = TX_OFF
             /\ \A b \in Bands : txLed[b] = LED_ON)

\* C5 witness: the sequence triggered by the microphone PTT is complete.
C5_Witness ==
    /\ micPtt /\ pc = "L288"
    /\ txState = TX_ON /\ oldTxState = TX_ON
    /\ ampRelay = AMP_ON /\ txKey = TX_OFF
    /\ \A b \in Bands : lnaRelay[b] = LNA_TX /\ txLed[b] = LED_ON

\* C6: a SetReceive that finds the RTS input active at line 440 returns at
\* once with txState = TX_ON and every output as it was.
C6_RtsHoldAborts ==
    [][ (pc = "R440" /\ pc' # "R440" /\ rtsPin = RTS_ACTIVE) =>
            /\ txState' = TX_ON
            /\ pc' = ret
            /\ srExit' = "rts"
            /\ UNCHANGED outputs ]_vars

\* C6 witness: SetReceive has returned on the RTS hold with the amplifier keyed.
C6_Witness ==
    srExit = "rts" /\ txState = TX_ON /\ ampRelay = AMP_ON /\ rtsPin = RTS_ACTIVE

\* C7: a SetReceive that found RTS inactive and read the PTT input active at
\* every check (line 459, each turn of the loop, line 468) returns with
\* txState = TX_ON and with the amplifier and LNA relays as they were on entry.
C7_PttHoldAborts ==
    [][ (srExit' = "ptt" /\ srExit # "ptt" /\ srAllPtt') =>
            /\ txState' = TX_ON
            /\ pc' = ret
            /\ ampRelay' = srIn.amp
            /\ lnaRelay' = srIn.lna ]_vars

\* C7 witness: the receive-entry called from line 367 has been given up after
\* a full window of active PTT reads, with the amplifier still keyed.
C7_Witness ==
    /\ srExit = "ptt" /\ srAllPtt
    /\ pc = "L288"
    /\ txState = TX_ON /\ ampRelay = AMP_ON

----------------------------------------------------------------------------
(* The claims about the resolver.                                          *)

\* Band b is handled by the call the step makes.
Resolved(b) == call' # NoCall /\ Selected(call'.band, b)

\* C8: a band whose forced-on contact is asserted is left in RECEIVE by the
\* resolver, whatever the forced-off contact, the requested level and txState.
C8_ForcedOnWins ==
    [][ \A b \in Bands :
          (Resolved(b) /\ ContactOn(b)) => lnaRelay'[b] = LNA_RX ]_vars

\* C9: a band whose forced-on contact is not asserted is left in TRANSMIT
\* when its forced-off contact is asserted, and otherwise in RECEIVE exactly
\* when the requested level is RECEIVE and txState is RECEIVE.
C9_NotForcedOn ==
    [][ \A b \in Bands :
          (Resolved(b) /\ ~ContactOn(b)) =>
              /\ ContactOff(b) => lnaRelay'[b] = LNA_TX
              /\ ~ContactOff(b) =>
                    (lnaRelay'[b] = LNA_RX <=>
                        (call'.level = LNA_RX /\ txState = TX_OFF)) ]_vars

\* C9 witness: one call has left a forced-off band in TRANSMIT and a
\* sequenced band in RECEIVE.
C9_Witness ==
    /\ call # NoCall /\ call.band = BOTH_BANDS /\ call.level = LNA_RX
    /\ txState = TX_OFF
    /\ \E b \in Bands : ~ContactOn(b) /\ ContactOff(b) /\ lnaRelay[b] = LNA_TX
    /\ \E b \in Bands : Sequenced(b) /\ lnaRelay[b] = LNA_RX

\* C10: a second call of the resolver with the same arguments, the contacts
\* and txState being the same, changes no relay and no cached flag.
C10_Idempotent ==
    [][ again' => UNCHANGED <<lnaRelay, lna_ForcedOn, lna_ForcedOff>> ]_vars

\* C10 witness: a call has been repeated, with a band in each position.
C10_Witness ==
    /\ again /\ call.band = BOTH_BANDS
    /\ \E b \in Bands : lnaRelay[b] = LNA_RX
    /\ \E b \in Bands : lnaRelay[b] = LNA_TX

----------------------------------------------------------------------------
(* The claims about the polling cycle and the edge handlers.               *)

\* The resolver call of line 297, and the level it leaves band b's relay at
\* (lines 610-641 and 661-692).
PollCall == [band |-> BOTH_BANDS, level |-> LNA_RX]
Reflects(b) ==
    IF ContactOff(b) THEN LNA_TX
    ELSE IF ContactOn(b) THEN LNA_RX
    ELSE IF txState = TX_OFF THEN LNA_RX ELSE LNA_TX

\* C11, as claimed: every polling cycle, on its way from line 288 to line
\* 307, calls the resolver SwitchPreamp ( BOTH_BANDS, LNA_RX ).
C11_ResolvedEveryCycle ==
    [][ (pc \in {"L288", "L296"} /\ pc' = "L307") => call' = PollCall ]_vars

\* C11, amended: a polling cycle in which CheckBlink ticks calls no resolver;
\* another cycle calls it only on the 50 ms mark of line 296, and then with
\* BOTH_BANDS and LNA_RX, after which every band's cached flags equal its
\* contacts and its relay is at the level the contacts resolve to.
C11_ResolvedOnMark ==
    [][ /\ (pc = "L288" /\ pc' = "L307") => call' = NoCall
        /\ (pc = "L296" /\ pc' = "L307" /\ call' # NoCall) =>
              /\ call' = PollCall
              /\ \A b \in Bands :
                    /\ lna_ForcedOn'[b] = ContactOn(b)
                    /\ lna_ForcedOff'[b] = ContactOff(b)
                    /\ lnaRelay'[b] = Reflects(b) ]_vars

\* C11 witness: after a mode switch was moved, the poll of line 297 has left
\* a forced-off band in TRANSMIT and a sequenced band in RECEIVE.
C11_Witness ==
    /\ moves = 1 /\ pc = "L307" /\ call = PollCall /\ txState = TX_OFF
    /\ \E b \in Bands : ContactOff(b) /\ lna_ForcedOff[b] /\ lnaRelay[b] = LNA_TX
    /\ \E b \in Bands : Sequenced(b) /\ lnaRelay[b] = LNA_RX

\* A step that is the run of a handler.
HandledPtt == pttIrq /\ ~pttIrq'
HandledRts == rtsIrq /\ ~rtsIrq'

\* C12, as claimed: every run of PTT_ISR leaves pttState at the level of the
\* PTT input, and every run of RTS_ISR leaves rtsState at the level of the RTS
\* input.
C12_HandlersLatchLevel ==
    [][ /\ HandledPtt => pttState' = PttPin
        /\ HandledRts => rtsState' = rtsPin ]_vars

\* C12, amended: every run of RTS_ISR leaves rtsState at the level of the RTS
\* input; a run of PTT_ISR leaves pttState at the level of the PTT input
\* unless rtsState is active, and then leaves pttState as it was.
C12_HandlersLatchUnlessRts ==
    [][ /\ HandledPtt =>
              pttState' = (IF rtsState = RTS_ACTIVE THEN pttState ELSE PttPin)
        /\ HandledRts => rtsState' = rtsPin ]_vars

\* C12 witness: every edge has been handled, and pttState is not the level of
\* the PTT input, pressed by hand while RTS was active.
C12_Witness ==
    /\ attached /\ Served
    /\ rtsState = RTS_ACTIVE /\ rtsPin = RTS_ACTIVE
    /\ micPtt /\ pttState # PTT_ACTIVE

\* C13: a run of PTT_ISR leaves txState, oldTxState, rtsState and every
\* output as they were; a run of RTS_ISR leaves txState, oldTxState, pttState
\* and every output as they were.
C13_HandlersFrame ==
    [][ /\ HandledPtt => UNCHANGED <<txState, oldTxState, rtsState, outputs>>
        /\ HandledRts => UNCHANGED <<txState, oldTxState, pttState, outputs>> ]_vars

\* C13 witness: the handlers have run in the middle of SetTransmit, which was
\* entered with a latch active and now finds both inactive.
C13_Witness ==
    /\ pc \in {"T394", "T409", "T412"}
    /\ Served
    /\ rtsState # RTS_ACTIVE /\ pttState # PTT_ACTIVE

\* C14, as claimed: txState is TX_ON only while the amplifier relay is keyed.
C14_TxStateOnlyWhenKeyed ==
    (txState = TX_ON) => (ampRelay = AMP_ON)

\* C14, amended: it is oldTxState that becomes TX_ON only once the amplifier
\* relay is keyed, and that, outside SetReceive, is TX_ON only while the
\* amplifier relay is keyed.
C14_OldTxStateOnlyWhenKeyed ==
    /\ [][ (oldTxState # TX_ON /\ oldTxState' = TX_ON) => ampRelay = AMP_ON ]_vars
    /\ []((oldTxState = TX_ON /\ ~InSetReceive) => ampRelay = AMP_ON)

\* C14 witness: SetTransmit has just marked the state, the amplifier keyed.
C14_Witness ==
    /\ pc = "L288" /\ oldTxState = TX_ON /\ txState = TX_ON
    /\ ampRelay = AMP_ON

\* The desired state for the levels of the two latches.
Desired == IF (pttState = PTT_ACTIVE) \/ (rtsState = RTS_ACTIVE) THEN TX_ON ELSE TX_OFF

\* C15: the two tests of lines 307-311 leave txState at TX_ON exactly when
\* pttState or rtsState is active and at TX_OFF exactly when neither is,
\* whatever txState was.
C15_DesiredState ==
    [][ (pc = "L310" /\ pc' = "L321") => txState' = Desired ]_vars

\* C15 witness: the tests have run with rtsState alone active.
C15_Witness ==
    /\ pc = "L321" /\ txState = TX_ON
    /\ rtsState = RTS_ACTIVE /\ pttState # PTT_ACTIVE

\* The sequencer at rest in receive.
AtRest == /\ txKey = TX_OFF
          /\ ampRelay = AMP_OFF
          /\ txState = TX_OFF /\ oldTxState = TX_OFF

\* C16 (RTS alone): when RTS, released at any point of a transmit-entry, stays
\* released, the sequencer ends up with TX_KEY off, the amplifier un-keyed and
\* txState = oldTxState = TX_OFF.
C16_NoLockAfterRts ==
    <>[](rtsPin # RTS_ACTIVE) => <>[]AtRest

\* C16 witness: RTS has been released, and the release handled, during the
\* wait of line 411, before TX_KEY is asserted.
C16_Witness ==
    /\ pc = "T412" /\ ~micPtt /\ Served
    /\ rtsPin # RTS_ACTIVE /\ rtsState # RTS_ACTIVE
    /\ ampRelay = AMP_ON /\ txKey = TX_OFF

\* Both trigger inputs are inactive.
InputsQuiet == ~micPtt /\ rtsPin # RTS_ACTIVE

\* C17: when both inputs stay inactive, the sequencer ends up polling at rest
\* in receive, every sequenced band's LNA relay in RECEIVE, and stays so: no
\* SetTransmit, no SetReceive, no change of a relay.
C17_SettlesInReceive ==
    <>[]InputsQuiet =>
        <>[](/\ Polling
             /\ AtRest
             /\ \A b \in Bands : Sequenced(b) => lnaRelay[b] = LNA_RX)

\* C18: a SetReceive that has run to line 499, where it marks the state
\* TX_OFF, has commanded the LNA relay of every sequenced band to RECEIVE.
C18_ReceiveEntryRestoresLna ==
    (pc = "R499") =>
        \A b \in Bands :
            Sequenced(b) => (lnaCmd[b] = << LNA_RX >> /\ lnaRelay[b] = LNA_RX)

----------------------------------------------------------------------------
(* The claims about the blink driver.                                      *)

\* A step that is a blink tick of CheckBlink (lines 524-547).
BlinkTick == pc = "L288" /\ pc' = "L307"

\* C19, as claimed: on a blink tick the LED of a band that is forced on while
\* txState is TX_OFF is toggled, and the LED of any other band is written off.
C19_BlinkOrForceOff ==
    [][ BlinkTick =>
          \A b \in Bands :
              IF lna_ForcedOn[b] /\ txState = TX_OFF
              THEN /\ tx_LedState'[b] = ~tx_LedState[b]
                   /\ txLed'[b] = tx_LedState'[b]
              ELSE txLed'[b] = LED_OFF ]_vars

\* C19, amended: on a blink tick the LED of a band that is forced on while
\* txState is TX_OFF gets the toggled tx_n_LedState; the LED of a band not
\* forced on is written off while txState is TX_OFF; while txState is TX_ON
\* no LED is written.
C19_BlinkOnlyInReceive ==
    [][ BlinkTick =>
          \A b \in Bands :
              IF lna_ForcedOn[b] /\ txState = TX_OFF
              THEN /\ tx_LedState'[b] = ~tx_LedState[b]
                   /\ txLed'[b] = tx_LedState'[b]
              ELSE /\ tx_LedState'[b] = tx_LedState[b]
                   /\ txLed'[b] = (IF txState = TX_OFF THEN LED_OFF ELSE txLed[b]) ]_vars

\* C19 witness: in receive, after a tick (tx_n_LedState is no longer at its
\* initial level), the LED of a forced-on band shows it and the LED of a band
\* not forced on is off.
C19_Witness ==
    /\ pc = "L307" /\ txState = TX_OFF
    /\ \E b \in Bands :
          lna_ForcedOn[b] /\ tx_LedState[b] = HIGH /\ txLed[b] = tx_LedState[b]
    /\ \E b \in Bands : ~lna_ForcedOn[b] /\ txLed[b] = LED_OFF

\* The transmit-entry is complete and the sequencer polls in transmit.
InTransmit == Polling /\ txState = TX_ON /\ oldTxState = TX_ON

\* C20, as claimed (scenario E): in transmit the relay of band 1 is in RECEIVE
\* and that of band 2 in TRANSMIT, every blink tick toggles the LED of band 1
\* and leaves the LED of band 2, which line 335 turns on, as it is.
C20_ForcedOnBlinksInTransmit ==
    /\ [](InTransmit => (lnaRelay[1] = LNA_RX /\ lnaRelay[2] = LNA_TX))
    /\ [][ (BlinkTick /\ InTransmit) =>
              (txLed'[1] = ~txLed[1] /\ txLed'[2] = txLed[2]) ]_vars
    /\ [][ (pc = "L333" /\ pc' = "L353" /\ PttPin = PTT_ACTIVE) =>
              txLed'[2] = LED_ON ]_vars

\* C20, amended (scenario E): in transmit the relay of band 1 is in RECEIVE
\* and that of band 2 in TRANSMIT, a blink tick changes neither LED, and line
\* 335 turns both LEDs on while the PTT input reads active.
C20_ForcedOnSteadyInTransmit ==
    /\ [](InTransmit => (lnaRelay[1] = LNA_RX /\ lnaRelay[2] = LNA_TX))
    /\ [][ (BlinkTick /\ txState = TX_ON) => UNCHANGED <<txLed, tx_LedState>> ]_vars
    /\ [][ (pc = "L333" /\ pc' = "L353" /\ PttPin = PTT_ACTIVE) =>
              (txLed'[1] = LED_ON /\ txLed'[2] = LED_ON) ]_vars

\* C20 witness: polling in transmit after blink ticks in receive, band 1 held
\* in RECEIVE, band 2 in TRANSMIT, both LEDs on.
C20_Witness ==
    /\ InTransmit /\ pc = "L288" /\ ampRelay = AMP_ON
    /\ lnaRelay[1] = LNA_RX /\ lnaRelay[2] = LNA_TX
    /\ tx_LedState[1] = HIGH
    /\ txLed[1] = LED_ON /\ txLed[2] = LED_ON

----------------------------------------------------------------------------
(* The claims about setup.                                                 *)

\* The step that ends setup.
SetupEnds == pc = "S270" /\ pc' = "L288"

\* C21, as claimed: at the end of setup txState is TX_ON exactly when the
\* level read from the PTT input was active.
C21_TxStateFromPtt ==
    [][ SetupEnds => (txState' = TX_ON <=> pttState' = PTT_ACTIVE) ]_vars

\* C21, amended: at the end of setup txState is TX_OFF whatever the PTT input;
\* it is pttState that line 253 sets to the level of the PTT input.
C21_TxStateOffPttLatched ==
    [][ /\ (pc = "S253" /\ pc' = "S270") => pttState' = PttPin
        /\ SetupEnds => (txState' = TX_OFF /\ oldTxState' = TX_OFF) ]_vars

\* C21 witness: setup is over with the PTT held at power-up: latched in
\* pttState, txState still TX_OFF, nothing keyed.
C21_Witness ==
    /\ pc = "L288" /\ micPtt /\ pttState = PTT_ACTIVE
    /\ txState = TX_OFF /\ oldTxState = TX_OFF
    /\ ampRelay = AMP_OFF /\ txKey = TX_OFF
    /\ tx_LedState = [b \in Bands |-> FALSE]

----------------------------------------------------------------------------
(* The FT-891 sequencer, Version 1.4: the first program of                 *)
(* FT-891_Sequencer_V1.4.ino. One trigger input (TX_GROUND, the radio's    *)
(* PTT indication), one LNA, and a transmit-inhibit output to the radio.   *)

INH_ON  == HIGH
INH_OFF == LOW
PTT_ON  == LOW
PTT_OFF == HIGH

\* While the FT-891 sequencer is examined the IC-9700 sequencer is off.
IC_Off ==
    /\ micPtt = FALSE /\ radioKeyed = FALSE /\ rtsPin = HIGH
    /\ lnaOnPin = [b \in Bands |-> HIGH] /\ lnaOffPin = [b \in Bands |-> HIGH]
    /\ txKey = TX_OFF /\ ampRelay = AMP_OFF
    /\ lnaRelay = [b \in Bands |-> LNA_TX] /\ txLed = [b \in Bands |-> LED_OFF]
    /\ txState = TX_OFF /\ oldTxState = TX_OFF
    /\ rtsState = HIGH /\ pttState = HIGH
    /\ lna_ForcedOn = [b \in Bands |-> FALSE]
    /\ lna_ForcedOff = [b \in Bands |-> FALSE]
    /\ tx_LedState = [b \in Bands |-> FALSE]
    /\ pc = "off" /\ i = 0 /\ ret = "L288" /\ attached = FALSE
    /\ pttIrq = FALSE /\ rtsIrq = FALSE /\ moves = 0
    /\ call = NoCall /\ lnaCmd = NoCmd /\ again = FALSE
    /\ srExit = "none" /\ srIn = NoSnap /\ srAllPtt = FALSE

\* The main program runs only while no edge waits for TxInterrupt.
FT_Main(at) == ft_pc = at /\ ~ft_irq

(* SwitchPreamp (lines 355-398): the level written to LNA_RELAY.           *)
FT_LnaLevel_OffFirst(onPin, offPin, newState, tx) ==
    IF ~offPin THEN LNA_TX
    ELSE IF ~onPin THEN LNA_RX
    ELSE IF (newState = LNA_RX) /\ (tx = TX_OFF) THEN LNA_RX
    ELSE LNA_TX
FT_LnaLevel(onPin, offPin, newState, tx) ==
    IF ~onPin THEN LNA_RX
    ELSE IF ~offPin THEN LNA_TX
    ELSE IF (newState = LNA_RX) /\ (tx = TX_OFF) THEN LNA_RX
    ELSE LNA_TX

FT_SwitchPreamp(newState) ==
    /\ lnaForcedOn' = ~ft_lnaOn
    /\ lnaForcedOff' = IF ~ft_lnaOn THEN lnaForcedOff ELSE ~ft_lnaOff
    /\ ft_lnaRelay' = FT_LnaLevel(ft_lnaOn, ft_lnaOff, newState, ft_txState)

(* setup (lines 129-216).                                                  *)

\* Lines 147-148.
FT_Setup_148 ==
    /\ FT_Main("s148")
    /\ ft_txInh' = INH_ON
    /\ ft_pc' = "s156"
    /\ UNCHANGED <<ic9700, ft891v11, ft_txGround, ft_lnaOn, ft_lnaOff, ft_txLed, ft_ampRelay,
                   ft_lnaRelay, ft_txState, ft_oldTxState, lnaForcedOn,
                   lnaForcedOff, txLedState, ft_attached, ft_irq, ft_moves>>

\* Lines 155-156.
FT_Setup_156 ==
    /\ FT_Main("s156")
    /\ ft_ampRelay' = AMP_OFF
    /\ ft_pc' = "s167"
    /\ UNCHANGED <<ic9700, ft891v11, ft_txGround, ft_lnaOn, ft_lnaOff, ft_txInh, ft_txLed,
                   ft_lnaRelay, ft_txState, ft_oldTxState, lnaForcedOn,
                   lnaForcedOff, txLedState, ft_attached, ft_irq, ft_moves>>

\* Line 167.
FT_Setup_167 ==
    /\ FT_Main("s167")
    /\ FT_SwitchPreamp(LNA_RX)
    /\ ft_pc' = "s178"
    /\ UNCHANGED <<ic9700, ft891v11, ft_txGround, ft_lnaOn, ft_lnaOff, ft_txInh, ft_txLed,
                   ft_ampRelay, ft_txState, ft_oldTxState, txLedState,
                   ft_attached, ft_irq, ft_moves>>

\* Line 178.
FT_Setup_178 ==
    /\ FT_Main("s178")
    /\ ft_txState' = ft_txGround
    /\ ft_oldTxState' = ft_txGround
    /\ ft_pc' = "s182"
    /\ UNCHANGED <<ic9700, ft891v11, ft_txGround, ft_lnaOn, ft_lnaOff, ft_txInh, ft_txLed,
                   ft_ampRelay, ft_lnaRelay, lnaForcedOn, lnaForcedOff,
                   txLedState, ft_attached, ft_irq, ft_moves>>

\* Lines 182-186.
FT_Setup_182 ==
    /\ FT_Main("s182")
    /\ ft_txLed' = IF ft_txState = TX_ON THEN LED_ON ELSE LED_OFF
    /\ ft_pc' = "s200"
    /\ UNCHANGED <<ic9700, ft891v11, ft_txGround, ft_lnaOn, ft_lnaOff, ft_txInh, ft_ampRelay,
                   ft_lnaRelay, ft_txState, ft_oldTxState, lnaForcedOn,
                   lnaForcedOff, txLedState, ft_attached, ft_irq, ft_moves>>

\* Line 200.
FT_Setup_200 ==
    /\ FT_Main("s200")
    /\ ft_attached' = TRUE
    /\ ft_pc' = "s202"
    /\ UNCHANGED <<ic9700, ft891v11, ft_txGround, ft_lnaOn, ft_lnaOff, ft_txInh, ft_txLed,
                   ft_ampRelay, ft_lnaRelay, ft_txState, ft_oldTxState,
                   lnaForcedOn, lnaForcedOff, txLedState, ft_irq, ft_moves>>

\* Line 202.
FT_Setup_202 ==
    /\ FT_Main("s202")
    /\ ft_oldTxState' = TX_ON
    /\ ft_pc' = "l230"
    /\ UNCHANGED <<ic9700, ft891v11, ft_txGround, ft_lnaOn, ft_lnaOff, ft_txInh, ft_txLed,
                   ft_ampRelay, ft_lnaRelay, ft_txState, lnaForcedOn,
                   lnaForcedOff, txLedState, ft_attached, ft_irq, ft_moves>>

FT_Setup == FT_Setup_148 \/ FT_Setup_156 \/ FT_Setup_167 \/ FT_Setup_178
               \/ FT_Setup_182 \/ FT_Setup_200 \/ FT_Setup_202

(* loop (lines 228-250).                                                   *)

\* Line 230: CheckBlink (lines 307-321). onMark says whether millis () % 100
\* is 0. The "else if" of line 318 belongs to the test of line 311.
FT_Loop_230 ==
    /\ FT_Main("l230")
    /\ \E onMark \in BOOLEAN :
         IF (ft_txState = TX_OFF) /\ lnaForcedOn
         THEN IF onMark
              THEN /\ txLedState' = ~txLedState
                   /\ ft_txLed' = ~txLedState
              ELSE /\ txLedState' = txLedState
                   /\ ft_txLed' = LED_OFF
         ELSE /\ txLedState' = txLedState
              /\ ft_txLed' = ft_txLed
    /\ ft_pc' = "l232"
    /\ UNCHANGED <<ic9700, ft891v11, ft_txGround, ft_lnaOn, ft_lnaOff, ft_txInh, ft_ampRelay,
                   ft_lnaRelay, ft_txState, ft_oldTxState, lnaForcedOn,
                   lnaForcedOff, ft_attached, ft_irq, ft_moves>>

\* Line 232.
FT_Loop_232 ==
    /\ FT_Main("l232")
    /\ FT_SwitchPreamp(LNA_RX)
    /\ ft_pc' = "l240"
    /\ UNCHANGED <<ic9700, ft891v11, ft_txGround, ft_lnaOn, ft_lnaOff, ft_txInh, ft_txLed,
                   ft_ampRelay, ft_txState, ft_oldTxState, txLedState,
                   ft_attached, ft_irq, ft_moves>>

\* Line 240.
FT_Loop_240_NoTest ==
    /\ FT_Main("l240")
    /\ ft_pc' = "l242"
    /\ UNCHANGED <<ic9700, ft891v11, ft_txGround, ft_lnaOn, ft_lnaOff, ft_txInh, ft_txLed,
                   ft_ampRelay, ft_lnaRelay, ft_txState, ft_oldTxState,
                   lnaForcedOn, lnaForcedOff, txLedState, ft_attached, ft_irq,
                   ft_moves>>
FT_Loop_240 ==
    /\ FT_Main("l240")
    /\ ft_pc' = IF ft_txState # ft_oldTxState THEN "l242" ELSE "l230"
    /\ UNCHANGED <<ic9700, ft891v11, ft_txGround, ft_lnaOn, ft_lnaOff, ft_txInh, ft_txLed,
                   ft_ampRelay, ft_lnaRelay, ft_txState, ft_oldTxState,
                   lnaForcedOn, lnaForcedOff, txLedState, ft_attached, ft_irq,
                   ft_moves>>

\* Line 242.
FT_Loop_242 ==
    /\ FT_Main("l242")
    /\ ft_oldTxState' = ft_txState
    /\ ft_pc' = "l244"
    /\ UNCHANGED <<ic9700, ft891v11, ft_txGround, ft_lnaOn, ft_lnaOff, ft_txInh, ft_txLed,
                   ft_ampRelay, ft_lnaRelay, ft_txState, lnaForcedOn,
                   lnaForcedOff, txLedState, ft_attached, ft_irq, ft_moves>>

\* Lines 244-248.
FT_Loop_244 ==
    /\ FT_Main("l244")
    /\ ft_pc' = IF ft_txState = TX_ON THEN "t265" ELSE "r286"
    /\ UNCHANGED <<ic9700, ft891v11, ft_txGround, ft_lnaOn, ft_lnaOff, ft_txInh, ft_txLed,
                   ft_ampRelay, ft_lnaRelay, ft_txState, ft_oldTxState,
                   lnaForcedOn, lnaForcedOff, txLedState, ft_attached, ft_irq,
                   ft_moves>>

FT_Loop == FT_Loop_230 \/ FT_Loop_232 \/ FT_Loop_240 \/ FT_Loop_242 \/ FT_Loop_244

(* SetTransmit (lines 263-276).                                            *)

FT_SetTransmit_265_Releases ==
    /\ FT_Main("t265")
    /\ ft_txInh' = INH_OFF
    /\ ft_pc' = "t266"
    /\ UNCHANGED <<ic9700, ft891v11, ft_txGround, ft_lnaOn, ft_lnaOff, ft_txLed, ft_ampRelay,
                   ft_lnaRelay, ft_txState, ft_oldTxState, lnaForcedOn,
                   lnaForcedOff, txLedState, ft_attached, ft_irq, ft_moves>>
FT_SetTransmit_265 ==
    /\ FT_Main("t265")
    /\ ft_txInh' = INH_ON
    /\ ft_pc' = "t266"
    /\ UNCHANGED <<ic9700, ft891v11, ft_txGround, ft_lnaOn, ft_lnaOff, ft_txLed, ft_ampRelay,
                   ft_lnaRelay, ft_txState, ft_oldTxState, lnaForcedOn,
                   lnaForcedOff, txLedState, ft_attached, ft_irq, ft_moves>>

FT_SetTransmit_266 ==
    /\ FT_Main("t266")
    /\ ft_txLed' = LED_ON
    /\ ft_pc' = "t268"
    /\ UNCHANGED <<ic9700, ft891v11, ft_txGround, ft_lnaOn, ft_lnaOff, ft_txInh, ft_ampRelay,
                   ft_lnaRelay, ft_txState, ft_oldTxState, lnaForcedOn,
                   lnaForcedOff, txLedState, ft_attached, ft_irq, ft_moves>>

\* Lines 268-269.
FT_SetTransmit_268 ==
    /\ FT_Main("t268")
    /\ FT_SwitchPreamp(LNA_TX)
    /\ ft_pc' = "t271"
    /\ UNCHANGED <<ic9700, ft891v11, ft_txGround, ft_lnaOn, ft_lnaOff, ft_txInh, ft_txLed,
                   ft_ampRelay, ft_txState, ft_oldTxState, txLedState,
                   ft_attached, ft_irq, ft_moves>>

\* Lines 271-273.
FT_SetTransmit_271 ==
    /\ FT_Main("t271")
    /\ ft_ampRelay' = AMP_ON
    /\ ft_pc' = "t275"
    /\ UNCHANGED <<ic9700, ft891v11, ft_txGround, ft_lnaOn, ft_lnaOff, ft_txInh, ft_txLed,
                   ft_lnaRelay, ft_txState, ft_oldTxState, lnaForcedOn,
                   lnaForcedOff, txLedState, ft_attached, ft_irq, ft_moves>>

FT_SetTransmit_275 ==
    /\ FT_Main("t275")
    /\ ft_txInh' = INH_OFF
    /\ ft_pc' = "l230"
    /\ UNCHANGED <<ic9700, ft891v11, ft_txGround, ft_lnaOn, ft_lnaOff, ft_txLed, ft_ampRelay,
                   ft_lnaRelay, ft_txState, ft_oldTxState, lnaForcedOn,
                   lnaForcedOff, txLedState, ft_attached, ft_irq, ft_moves>>

FT_SetTransmit == FT_SetTransmit_265 \/ FT_SetTransmit_266 \/ FT_SetTransmit_268
                     \/ FT_SetTransmit_271 \/ FT_SetTransmit_275

(* SetReceive (lines 284-293).                                             *)

FT_SetReceive_286 ==
    /\ FT_Main("r286")
    /\ ft_txInh' = INH_ON
    /\ ft_pc' = "r287"
    /\ UNCHANGED <<ic9700, ft891v11, ft_txGround, ft_lnaOn, ft_lnaOff, ft_txLed, ft_ampRelay,
                   ft_lnaRelay, ft_txState, ft_oldTxState, lnaForcedOn,
                   lnaForcedOff, txLedState, ft_attached, ft_irq, ft_moves>>

FT_SetReceive_287 ==
    /\ FT_Main("r287")
    /\ ft_txLed' = LED_OFF
    /\ ft_pc' = "r288"
    /\ UNCHANGED <<ic9700, ft891v11, ft_txGround, ft_lnaOn, ft_lnaOff, ft_txInh, ft_ampRelay,
                   ft_lnaRelay, ft_txState, ft_oldTxState, lnaForcedOn,
                   lnaForcedOff, txLedState, ft_attached, ft_irq, ft_moves>>

\* Lines 288-290.
FT_SetReceive_288 ==
    /\ FT_Main("r288")
    /\ ft_ampRelay' = AMP_OFF
    /\ ft_pc' = "r292"
    /\ UNCHANGED <<ic9700, ft891v11, ft_txGround, ft_lnaOn, ft_lnaOff, ft_txInh, ft_txLed,
                   ft_lnaRelay, ft_txState, ft_oldTxState, lnaForcedOn,
                   lnaForcedOff, txLedState, ft_attached, ft_irq, ft_moves>>

FT_SetReceive_292 ==
    /\ FT_Main("r292")
    /\ FT_SwitchPreamp(LNA_RX)
    /\ ft_pc' = "l230"
    /\ UNCHANGED <<ic9700, ft891v11, ft_txGround, ft_lnaOn, ft_lnaOff, ft_txInh, ft_txLed,
                   ft_ampRelay, ft_txState, ft_oldTxState, txLedState,
                   ft_attached, ft_irq, ft_moves>>

FT_SetReceive == FT_SetReceive_286 \/ FT_SetReceive_287 \/ FT_SetReceive_288
                    \/ FT_SetReceive_292

(* TxInterrupt (lines 329-332).                                            *)
TxInterrupt ==
    /\ ft_irq
    /\ ft_irq' = FALSE
    /\ ft_txState' = ft_txGround
    /\ UNCHANGED <<ic9700, ft891v11, ft_txGround, ft_lnaOn, ft_lnaOff, ft_txInh, ft_txLed,
                   ft_ampRelay, ft_lnaRelay, ft_oldTxState, lnaForcedOn,
                   lnaForcedOff, txLedState, ft_pc, ft_attached, ft_moves>>

(* The world around the FT-891 sequencer. A change of TX_GROUND is served  *)
(* by TxInterrupt before anything else happens (line 200: CHANGE).         *)

\* The radio goes to transmit or back to receive.
FT_PttChange ==
    /\ ~ft_irq
    /\ ft_txGround' = ~ft_txGround
    /\ ft_irq' = ft_attached
    /\ UNCHANGED <<ic9700, ft891v11, ft_lnaOn, ft_lnaOff, ft_txInh, ft_txLed, ft_ampRelay,
                   ft_lnaRelay, ft_txState, ft_oldTxState, lnaForcedOn,
                   lnaForcedOff, txLedState, ft_pc, ft_attached, ft_moves>>

\* The operator moves the mode switch: its two contacts change.
FT_ContactChange ==
    /\ ~ft_irq
    /\ ft_moves < MaxMoves
    /\ ft_moves' = ft_moves + 1
    /\ \E on \in BOOLEAN, off \in BOOLEAN :
          /\ <<on, off>> # <<ft_lnaOn, ft_lnaOff>>
          /\ ft_lnaOn' = on
          /\ ft_lnaOff' = off
    /\ UNCHANGED <<ic9700, ft891v11, ft_txGround, ft_txInh, ft_txLed, ft_ampRelay,
                   ft_lnaRelay, ft_txState, ft_oldTxState, lnaForcedOn,
                   lnaForcedOff, txLedState, ft_pc, ft_attached, ft_irq>>

\* Power-up: the globals as initialised by lines 115-121, the relays not
\* yet driven (preamp in bypass, amplifier off, lines 142-144), TX_INH not
\* yet driven by the sketch, and the inputs at any level.
FT_Init ==
    /\ IC_Off /\ V11_Off
    /\ ft_txGround \in BOOLEAN
    /\ ft_lnaOn \in BOOLEAN
    /\ ft_lnaOff \in BOOLEAN
    /\ ft_txInh \in BOOLEAN
    /\ ft_txLed = LED_OFF
    /\ ft_ampRelay = AMP_OFF
    /\ ft_lnaRelay = LNA_TX
    /\ ft_txState = TX_OFF
    /\ ft_oldTxState = TX_OFF
    /\ lnaForcedOn = FALSE
    /\ lnaForcedOff = FALSE
    /\ txLedState = FALSE
    /\ ft_pc = "s148"
    /\ ft_attached = FALSE
    /\ ft_irq = FALSE
    /\ ft_moves = 0

FT_Program == FT_Setup \/ FT_Loop \/ FT_SetTransmit \/ FT_SetReceive

FT_Next == FT_Program \/ TxInterrupt \/ FT_PttChange \/ FT_ContactChange

SpecFT == FT_Init /\ [][FT_Next]_vars

\* The FT-891 sequencer with the mode switch left alone.
FT_NextFixed == FT_Program \/ TxInterrupt \/ FT_PttChange

SpecFTFixed == FT_Init /\ [][FT_NextFixed]_vars

----------------------------------------------------------------------------
(* The claims about the Version 1.4 firmware of the FT-891 sequencer.      *)

FT_Released  == ft_txInh = INH_OFF
FT_AmpKeyed  == ft_ampRelay = AMP_ON

\* C22: from the first write of setup on (line 148, which asserts the
\* inhibit), the transmit inhibit is released only while the amplifier relay
\* is keyed; it goes from asserted to released only by the last write of
\* SetTransmit (line 275), with the amplifier keyed; and the amplifier is
\* un-keyed only with the inhibit asserted, by line 288 of SetReceive after
\* line 286 asserted it.
C22_InhibitOnlyWhileAmpKeyed ==
    /\ [](ft_pc # "s148" => (FT_Released => FT_AmpKeyed))
    /\ [][ /\ (~FT_Released /\ FT_Released')
              => (ft_pc = "t275" /\ ft_pc' = "l230" /\ FT_AmpKeyed)
           /\ (FT_AmpKeyed /\ ~FT_AmpKeyed')
              => (ft_pc = "r288" /\ ~FT_Released /\ ~FT_Released')
           /\ (ft_pc = "s148" /\ ft_pc' = "s156") => ~FT_Released' ]_vars

\* The sequencer polling in transmit after SetTransmit has run: the inhibit
\* released, the amplifier keyed.
C22_Witness ==
    /\ ft_pc = "l230" /\ FT_Released /\ FT_AmpKeyed
    /\ ft_txState = TX_ON /\ ft_oldTxState = TX_ON /\ ft_txGround = PTT_ON

\* The mode switch as it is now.
FT_ContactOn  == ft_lnaOn = LOW
FT_ContactOff == ft_lnaOff = LOW
FT_Sequenced  == ~FT_ContactOn /\ ~FT_ContactOff

\* C23: while the transmit inhibit is released the LNA relay is in TRANSMIT
\* (bypass), unless the forced-on contact is asserted.
C23_ReleasedBypasses ==
    FT_Released => (ft_lnaRelay = LNA_TX \/ FT_ContactOn)

\* A step of the main program that runs SwitchPreamp and writes RECEIVE to
\* the LNA relay (lines 167, 232, 268 and 292).
FT_CommandsRx ==
    /\ ft_pc \in {"s167", "l232", "t268", "r292"}
    /\ ft_pc' # ft_pc
    /\ ft_lnaRelay' = LNA_RX

\* C24: with the LNA sequenced, the LNA relay is commanded to RECEIVE only
\* with the amplifier relay un-keyed and the transmit inhibit asserted.
C24_RxOnlyAfterAmpOff ==
    [][ (FT_Sequenced /\ FT_CommandsRx) => (~FT_AmpKeyed /\ ~FT_Released) ]_vars

----------------------------------------------------------------------------
(* More claims about the Version 2.0 firmware.                             *)

(* The processor keeps running: after a handler returns, the main program  *)
(* executes before the next interrupt is taken, so the main program moves  *)
(* on however often the inputs change; pending edges are served.           *)
SpecRuns ==
    /\ Init /\ [][NextFixed]_vars
    /\ SF_vars(Program)
    /\ WF_vars(Handlers)

\* One turn of the confirmation loop of lines 460-466, and the for
\* statement of lines 459-460 being reached.
LoopTurn  == pc = "R462" /\ <<pc, i>>' # <<pc, i>>
LoopEntry == pc = "R459" /\ pc' # pc

\* C25: SetReceive always returns; its confirmation loop runs at most
\* PTT_OFF_DELAY times, is left by the first turn after which the PTT input
\* reads inactive, and is not entered (TX_KEY not written) when the PTT
\* input reads inactive at line 459.
C25_SetReceiveReturns ==
    /\ InSetReceive ~> ~InSetReceive
    /\ [](pc = "R462" => i \in 0 .. (PTT_OFF_DELAY - 1))
    /\ [][ /\ (LoopTurn /\ PttPin # PTT_ACTIVE) => pc' = "R468"
           /\ (LoopTurn /\ i = PTT_OFF_DELAY - 1) => pc' = "R468"
           /\ (LoopEntry /\ PttPin # PTT_ACTIVE) => (pc' = "R468" /\ txKey' = txKey)
           /\ (LoopEntry /\ PttPin = PTT_ACTIVE) => (pc' = "R462" /\ i' = 0) ]_vars

\* The loop has run all its turns with the PTT input active at every read.
C25_Witness ==
    /\ pc = "R468" /\ srAllPtt /\ PttPin = PTT_ACTIVE
    /\ rtsPin # RTS_ACTIVE /\ txKey = TX_OFF

(* An RTS transmission held by the microphone: RTS goes active while the   *)
(* sequencer polls at rest, the operator presses the microphone PTT only   *)
(* while RTS is active and latched, RTS is released only while the radio   *)
(* is keyed through K4 and the microphone PTT is pressed, and the          *)
(* microphone PTT is released at any point. The mode switches are left     *)
(* alone.                                                                  *)
MicDuringRts   == rtsPin = RTS_ACTIVE /\ rtsState = RTS_ACTIVE /\ MicPress
RtsReleaseHeld == micPtt /\ radioKeyed /\ RtsRelease

NextRtsHeld ==
    Program \/ Handlers \/ RadioFollows \/ RtsFromRest \/ RtsReleaseHeld
        \/ MicDuringRts \/ MicRelease

SpecRtsHeld ==
    /\ InitRtsRun /\ [][NextRtsHeld]_vars
    /\ WF_vars(Program)
    /\ WF_vars(Handlers)
    /\ WF_vars(RadioFollows)

\* The transmission is held: RTS released and latched released, the
\* microphone PTT pressed, and the transmit-entry completed.
Held ==
    /\ micPtt
    /\ rtsPin # RTS_ACTIVE /\ rtsState # RTS_ACTIVE
    /\ oldTxState = TX_ON

\* The hold is over: both inputs inactive.
HoldOver == ~micPtt /\ rtsPin # RTS_ACTIVE

\* C26: while the transmission is held, no step changes the amplifier relay
\* or an LNA relay, a receive-entry that reaches line 468 is aborted there,
\* and every polling cycle begun while it is held ends with the receive-entry
\* aborted at line 471 (or the hold ends); once the PTT input is inactive the
\* sequencer runs the receive-entry to its end: a receive-entry that ends at
\* line 499 leaves the amplifier un-keyed, the sequenced LNAs in RECEIVE and
\* txState = oldTxState = TX_OFF, an LNA relay goes to RECEIVE only with the
\* amplifier un-keyed, and the sequencer comes to rest.
C26_HeldThenReceive ==
    /\ [][ (Held /\ Held') => (ampRelay' = ampRelay /\ lnaRelay' = lnaRelay) ]_vars
    /\ [][ (Held /\ pc = "R468" /\ pc' # pc) => (pc' = "L288" /\ srExit' = "ptt") ]_vars
    /\ (Held /\ pc = "L288") ~> (~Held \/ (pc = "L288" /\ srExit = "ptt"))
    /\ [](srExit = "done" =>
            /\ ampRelay = AMP_OFF /\ txState = TX_OFF /\ oldTxState = TX_OFF
            /\ \A b \in Bands : Sequenced(b) => lnaRelay[b] = LNA_RX)
    /\ [][ \A b \in Bands :
             (Sequenced(b) /\ lnaRelay[b] # LNA_RX /\ lnaRelay'[b] = LNA_RX)
                => ampRelay = AMP_OFF ]_vars
    /\ HoldOver ~> (AtRest /\ Polling)

\* A receive-entry has just been aborted again while the transmission is
\* held: TX_KEY was dropped by an earlier attempt and the radio has followed.
C26_Witness ==
    /\ Held /\ pc = "L288" /\ srExit = "ptt"
    /\ txKey = TX_OFF /\ ~radioKeyed /\ ampRelay = AMP_ON
    /\ \E b \in Bands : Sequenced(b) /\ lnaRelay[b] = LNA_TX

\* The PTT edge that K4 produces when the sequencer has asserted TX_KEY.
KeyEcho == radioKeyed /\ txKey = TX_ON

\* C27: in an RTS transmission (RTS released only after the radio is keyed
\* through K4) a PTT edge handled while RTS is latched active leaves the PTT
\* latch as it was, the PTT latch is never active, and once RTS is latched
\* released the desired state computed by lines 310-311 is RECEIVE.
C27_KeyEchoNotLatched ==
    /\ [][ (HandledPtt /\ rtsState = RTS_ACTIVE) => pttState' = pttState ]_vars
    /\ [](pttState # PTT_ACTIVE)
    /\ [][ (pc = "L310" /\ pc' = "L321" /\ rtsState # RTS_ACTIVE)
             => txState' = TX_OFF ]_vars

\* RTS has been released after the key echo, and lines 310-311 have computed
\* RECEIVE while the radio is still keyed through K4.
C27_Witness ==
    /\ pc = "L321" /\ KeyEcho /\ ~micPtt
    /\ rtsPin # RTS_ACTIVE /\ rtsState # RTS_ACTIVE
    /\ pttState # PTT_ACTIVE /\ PttPin = PTT_ACTIVE
    /\ txState = TX_OFF /\ oldTxState = TX_ON

(* Both trigger inputs, inactive until the handlers are attached, then     *)
(* pressed and released at any point; the main program runs between       *)
(* interrupts, pending edges are served and the radio follows TX_KEY.      *)
SpecTriggersRun ==
    /\ InitRtsRun /\ [][NextTriggers]_vars
    /\ SF_vars(Program)
    /\ WF_vars(Handlers)
    /\ WF_vars(RadioFollows)

\* C28: when RTS goes active and stays active, whatever the microphone PTT
\* does, the amplifier relay is keyed and TX_KEY asserted at some later time.
C28_RtsKeysRadio ==
    <>[](rtsPin = RTS_ACTIVE) => []<>(ampRelay = AMP_ON /\ txKey = TX_ON)

(* RTS again during a receive-entry: the microphone PTT is never pressed;  *)
(* RTS goes active while the sequencer polls at rest, is released while    *)
(* the sequencer polls in transmit with the radio keyed through K4, and    *)
(* goes active again while SetReceive runs, after its test of line 440.    *)
(* K4 and the radio follow TX_KEY within the PTT_OFF_DELAY milliseconds of *)
(* the confirmation loop, that is before line 468 reads the PTT input.     *)
PastRtsCheck == pc \in {"R459", "R462", "R468", "R479", "R482", "R492", "R499"}

RtsReleaseKeyed  == InTransmit /\ radioKeyed /\ RtsRelease
RtsDuringReceive == PastRtsCheck /\ RtsPress
SetReceive_468_Settled == radioKeyed = (txKey = TX_ON) /\ SetReceive_468

ProgramSettled ==
    Setup \/ Loop \/ SetTransmit
        \/ SetReceive_440 \/ SetReceive_459 \/ SetReceive_462
        \/ SetReceive_468_Settled \/ SetReceive_479 \/ SetReceive_482
        \/ SetReceive_492 \/ SetReceive_499

NextRtsAgain ==
    ProgramSettled \/ Handlers \/ RadioFollows
        \/ RtsFromRest \/ RtsReleaseKeyed \/ RtsDuringReceive

SpecRtsAgain ==
    /\ InitRtsRun /\ [][NextRtsAgain]_vars
    /\ WF_vars(ProgramSettled)
    /\ WF_vars(Handlers)
    /\ WF_vars(RadioFollows)

\* RTS is active again inside a receive-entry that has passed line 440.
RtsAgain == PastRtsCheck /\ rtsPin = RTS_ACTIVE

\* The transmit-entry has run in full.
FullTransmit ==
    /\ txKey = TX_ON /\ ampRelay = AMP_ON
    /\ \A b \in Bands : Sequenced(b) => lnaRelay[b] = LNA_TX
    /\ txState = TX_ON /\ oldTxState = TX_ON

LoopReturns == Polling \/ pc = "T420" \/ (InSetReceive /\ ret = "L288")

\* C30: whenever loop returns, txState equals oldTxState and the amplifier
\* relay is keyed exactly when txState is TX_ON.
C30_CycleEndsConsistent ==
    [][ (LoopReturns /\ pc # "L288" /\ pc' = "L288") =>
          /\ txState' = oldTxState'
          /\ (ampRelay' = AMP_ON <=> txState' = TX_ON) ]_vars

\* loop has returned from a receive-entry given up because RTS was active
\* again: the sequencer stays in transmit.
C30_Witness ==
    /\ pc = "L288" /\ srExit = "rts"
    /\ txState = TX_ON /\ oldTxState = TX_ON /\ ampRelay = AMP_ON

-----------------------------------------------------------------------------
(* Power-up with the microphone PTT already pressed and held, RTS never    *)
(* active: no edge ever comes, the program runs on its own.                *)
InitPttHeld == Init /\ micPtt /\ rtsPin = ~RTS_ACTIVE

NextPttHeld == Setup \/ Loop \/ SetTransmitByPtt \/ SetReceiveHeld

SpecPttHeld == InitPttHeld /\ [][NextPttHeld]_vars

\* SetTransmit's line 385 has not run yet since power-up (PTT held: once the
\* amplifier is keyed it stays keyed).
BeforeFirstEntry == ampRelay = AMP_OFF /\ pc # "T394"

\* C31, as claimed: with PTT active at power-up, no step of setup or of the
\* polling cycle commands the LNA relay of a sequenced band to RECEIVE before
\* the transmit-entry sequence has switched the LNAs to TRANSMIT.
C31_NoRxBeforeEntry ==
    [][\A b \in Bands :
          (Sequenced(b) /\ BeforeFirstEntry) => ~Commanded(b, LNA_RX)]_vars

-----------------------------------------------------------------------------
(* The transmit LEDs on a transmit-entry started by the microphone PTT.    *)

InSetTransmit == pc \in {"T385", "T394", "T409", "T412", "T420"}

\* C32, as claimed (scenario A): a transmit LED is turned on only after the
\* LNA relays have been switched to TRANSMIT and the amplifier has been keyed.
C32_LedsLast ==
    [][\A b \in Bands : LedLit(b) => (AllBypassed /\ ampRelay = AMP_ON)]_vars

\* C32, amended (scenario A): the transmit LEDs are turned on by the LED
\* update of lines 333-337 alone, in a polling cycle that reads the PTT input
\* active; when SetTransmit starts at line 385 both LEDs are already on with
\* the amplifier not yet keyed, and SetTransmit writes no LED.
C32_LedsBeforeSetTransmit ==
    /\ [][\A b \in Bands : LedLit(b) => (pc = "L333" /\ PttPin = PTT_ACTIVE)]_vars
    /\ [][(pc = "T385" /\ pc' = "T394") =>
             /\ \A b \in Bands : txLed[b] = LED_ON
             /\ ampRelay = AMP_OFF
             /\ \A b \in Bands : Commanded(b, LNA_TX)]_vars
    /\ [][InSetTransmit => UNCHANGED txLed]_vars

\* C32 witness: SetTransmit is about to run for the pressed microphone PTT,
\* both LEDs are on, the LNA relays are in RECEIVE and the amplifier is off.
C32_Witness ==
    /\ pc = "T385" /\ micPtt /\ rtsPin = ~RTS_ACTIVE
    /\ ampRelay = AMP_OFF
    /\ \A b \in Bands : txLed[b] = LED_ON /\ lnaRelay[b] = LNA_RX

-----------------------------------------------------------------------------
(* The LED update of lines 333-343 against the blink of CheckBlink.        *)

\* From the LED update to the end of the polling cycle.
AfterLedUpdate ==
    \/ pc = "L353"
    \/ InSetTransmit
    \/ InSetReceive /\ ret = "L288"

\* C33: an LED update that reads the PTT input inactive turns both transmit
\* LEDs off, whatever CheckBlink wrote before; no step from the LED update to
\* the end of the polling cycle turns an LED on; and an LED is turned on only
\* by an LED update that reads PTT active or by the toggle of CheckBlink for
\* a band forced on in receive. The warning LED lit by CheckBlink is thus
\* lit only from the toggle to the LED update of the same cycle.
C33_WarningLedUntilUpdate ==
    /\ [][(pc = "L333" /\ pc' = "L353" /\ PttPin # PTT_ACTIVE) =>
             \A b \in Bands : txLed'[b] = LED_OFF]_vars
    /\ [][AfterLedUpdate => \A b \in Bands : ~LedLit(b)]_vars
    /\ [][\A b \in Bands : LedLit(b) =>
             \/ pc = "L333" /\ PttPin = PTT_ACTIVE
             \/ BlinkTick /\ lna_ForcedOn[b] /\ txState = TX_OFF]_vars

\* C33 witness: the LED update has just read PTT inactive and turned off the
\* LED that CheckBlink had lit for a forced-on band.
C33_Witness ==
    /\ pc = "L353" /\ PttPin # PTT_ACTIVE
    /\ \E b \in Bands :
          lna_ForcedOn[b] /\ tx_LedState[b] = LED_ON /\ txLed[b] = LED_OFF

-----------------------------------------------------------------------------
(* The bands a resolver call touches.                                      *)

\* The step leaves the relay and the cached flags of band b as they were.
BandKept(b) ==
    /\ lnaRelay'[b] = lnaRelay[b]
    /\ lna_ForcedOn'[b] = lna_ForcedOn[b]
    /\ lna_ForcedOff'[b] = lna_ForcedOff[b]
    /\ lnaCmd'[b] = << >>

\* C34, as claimed: SwitchPreamp called for BAND_1 leaves the relay and the
\* cached flags of band 2 as they were, called for BAND_2 those of band 1, and
\* called for NO_BAND those of both bands.
C34_SingleBandFrame ==
    [][ /\ call'.band = BAND_1 => BandKept(2)
        /\ call'.band = BAND_2 => BandKept(1)
        /\ call'.band = NO_BAND => (BandKept(1) /\ BandKept(2)) ]_vars

-----------------------------------------------------------------------------
(* The resolver of the Version 1.4 firmware on its own: any level of the   *)
(* two contacts, of the relay, of the cached flags and of txState, and     *)
(* either requested level; ft_pc keeps the level last requested.           *)
FT_InitResolver ==
    /\ IC_Off /\ V11_Off
    /\ ft_txGround = PTT_OFF
    /\ ft_lnaOn \in BOOLEAN
    /\ ft_lnaOff \in BOOLEAN
    /\ ft_txInh = INH_ON
    /\ ft_txLed = LED_OFF
    /\ ft_ampRelay \in BOOLEAN
    /\ ft_lnaRelay \in BOOLEAN
    /\ ft_txState \in BOOLEAN
    /\ ft_oldTxState = ft_txState
    /\ lnaForcedOn \in BOOLEAN
    /\ lnaForcedOff \in BOOLEAN
    /\ txLedState = FALSE
    /\ ft_pc = "resolver"
    /\ ft_attached = TRUE
    /\ ft_irq = FALSE
    /\ ft_moves = 0

FT_Resolve ==
    /\ ft_pc \in {"resolver", "rx", "tx"}
    /\ \E newState \in BOOLEAN :
         /\ FT_SwitchPreamp(newState)
         /\ ft_pc' = IF newState = LNA_RX THEN "rx" ELSE "tx"
    /\ UNCHANGED <<ic9700, ft891v11, ft_txGround, ft_lnaOn, ft_lnaOff, ft_txInh, ft_txLed,
                   ft_ampRelay, ft_txState, ft_oldTxState, txLedState,
                   ft_attached, ft_irq, ft_moves>>

SpecFTResolver == FT_InitResolver /\ [][FT_Resolve]_vars

\* C35: a call of the single-band SwitchPreamp leaves the relay in RECEIVE
\* if the forced-on contact is asserted (the forced-off contact asserted or
\* not), else in TRANSMIT if the forced-off contact is asserted, else in
\* RECEIVE exactly when the requested level is RECEIVE and txState is TX_OFF.
C35_SingleBandResolver ==
    [][ ft_lnaRelay' =
          IF FT_ContactOn THEN LNA_RX
          ELSE IF FT_ContactOff THEN LNA_TX
          ELSE IF ft_pc' = "rx" /\ ft_txState = TX_OFF THEN LNA_RX
          ELSE LNA_TX ]_vars

\* C35 witness: a call with both contacts asserted, txState at TX_ON and
\* TRANSMIT requested has left the relay in RECEIVE.
C35_Witness ==
    /\ ft_pc = "tx" /\ ft_txState = TX_ON
    /\ FT_ContactOn /\ FT_ContactOff
    /\ lnaForcedOn /\ ft_lnaRelay = LNA_RX

-----------------------------------------------------------------------------
(* The blink driver of the Version 1.4 firmware.                           *)

\* A run of CheckBlink (line 230).
FT_Blinks == ft_pc = "l230" /\ ft_pc' = "l232"

\* C36, as claimed: a run of CheckBlink with txState at TX_OFF and the LNA
\* not forced on leaves the transmit LED off.
C36_BlinkForcesLedOff ==
    [][(FT_Blinks /\ ft_txState = TX_OFF /\ ~lnaForcedOn) =>
          ft_txLed' = LED_OFF]_vars

-----------------------------------------------------------------------------
(* Power-up of the Version 1.4 firmware with PTT already active: the radio *)
(* may go back to receive, and is not keyed again.                         *)
FT_InitPttHeld == FT_Init /\ ft_txGround = PTT_ON

FT_PttRelease == ft_txGround = PTT_ON /\ FT_PttChange

FT_NextPttHeld ==
    FT_Setup \/ FT_Loop \/ FT_SetReceive \/ TxInterrupt
        \/ FT_PttRelease \/ FT_ContactChange

SpecFTPttHeld == FT_InitPttHeld /\ [][FT_NextPttHeld]_vars

FT_InSetTransmit == ft_pc \in {"t265", "t266", "t268", "t271", "t275"}

\* C37: with PTT active at power-up and not pressed again, SetTransmit is
\* never entered, the inhibit stays asserted from line 148 on and the
\* amplifier stays un-keyed; and while PTT stays active the poll of line 232
\* puts the LNA relay in TRANSMIT unless the forced-on contact is asserted,
\* where it stays for the rest of the polling cycle.
C37_HeldAtPowerUp ==
    /\ [](~FT_InSetTransmit)
    /\ [](ft_pc # "s148" => ft_txInh = INH_ON)
    /\ [](ft_ampRelay = AMP_OFF)
    /\ [][(ft_pc = "l232" /\ ft_pc' = "l240" /\ ft_txGround = PTT_ON) =>
             ft_lnaRelay' = IF FT_ContactOn THEN LNA_RX ELSE LNA_TX]_vars
    /\ []((ft_pc = "l240" /\ ft_txGround = PTT_ON) =>
             ft_lnaRelay = IF lnaForcedOn THEN LNA_RX ELSE LNA_TX)
    /\ [][(ft_pc \in {"l240", "l230"} /\ ft_txGround = PTT_ON) =>
             UNCHANGED ft_lnaRelay]_vars

\* C37 witness: PTT held since power-up, the first poll is done: txState and
\* oldTxState agree on TX_ON, the sequenced LNA is in TRANSMIT, the inhibit
\* is asserted and the amplifier is off.
C37_Witness ==
    /\ ft_pc = "l240" /\ ft_txGround = PTT_ON
    /\ ft_txState = TX_ON /\ ft_oldTxState = TX_ON
    /\ FT_Sequenced /\ ft_lnaRelay = LNA_TX
    /\ ft_txInh = INH_ON /\ ft_ampRelay = AMP_OFF

-----------------------------------------------------------------------------
(* The FT-891 sequencer, Version 1.1 (FT-891_Sequencer.ino): one preamp    *)
(* with an enable switch, one amplifier, the transmit inhibit line with    *)
(* its LED, and the transmit LED. Consecutive pin writes with no delay and *)
(* no read of txState between them are one step.                           *)

PREAMP_RX == LOW
PREAMP_TX == HIGH

\* The main program runs only while no edge waits for TxInterrupt.
V11_Main(at) == v11_pc = at /\ ~v11_irq

\* The level SwitchPreamp writes (lines 285-289).
V11_PreampLevel(enabled, newState, tx) ==
    IF (newState = PREAMP_RX) /\ enabled /\ (tx = TX_OFF)
    THEN PREAMP_RX ELSE PREAMP_TX

\* SwitchPreamp ( newState ) (lines 281-290).
V11_SwitchPreamp(newState) ==
    /\ preampEnabled' = v11_preampSwitch
    /\ v11_preampRelay' = V11_PreampLevel(v11_preampSwitch, newState, v11_txState)

(* setup (lines 92-182).                                                   *)

\* Lines 110-122.
V11_Setup_111 ==
    /\ V11_Main("v111")
    /\ v11_txInh' = INH_ON
    /\ v11_inhLed' = LED_ON
    /\ v11_ampRelay' = AMP_OFF
    /\ v11_pc' = "v132"
    /\ UNCHANGED <<ic9700, ft891, v11_txGround, v11_preampSwitch, v11_txLed,
                   v11_preampRelay, v11_txState, v11_oldTxState,
                   preampEnabled, v11_attached, v11_irq, v11_moves>>

\* Line 132.
V11_Setup_132 ==
    /\ V11_Main("v132")
    /\ V11_SwitchPreamp(PREAMP_RX)
    /\ v11_pc' = "v143"
    /\ UNCHANGED <<ic9700, ft891, v11_txGround, v11_preampSwitch, v11_txInh,
                   v11_inhLed, v11_txLed, v11_ampRelay, v11_txState,
                   v11_oldTxState, v11_attached, v11_irq, v11_moves>>

\* Lines 142-151: both branches of the test of line 147 write LED_ON.
V11_Setup_143 ==
    /\ V11_Main("v143")
    /\ v11_txState' = v11_txGround
    /\ v11_oldTxState' = v11_txGround
    /\ v11_txLed' = IF v11_txGround = TX_ON THEN LED_ON ELSE LED_ON
    /\ v11_pc' = "v165"
    /\ UNCHANGED <<ic9700, ft891, v11_txGround, v11_preampSwitch, v11_txInh,
                   v11_inhLed, v11_ampRelay, v11_preampRelay, preampEnabled,
                   v11_attached, v11_irq, v11_moves>>

\* Line 165.
V11_Setup_165 ==
    /\ V11_Main("v165")
    /\ v11_attached' = TRUE
    /\ v11_pc' = "v167"
    /\ UNCHANGED <<ic9700, ft891, v11_txGround, v11_preampSwitch, v11_txInh,
                   v11_inhLed, v11_txLed, v11_ampRelay, v11_preampRelay,
                   v11_txState, v11_oldTxState, preampEnabled, v11_irq,
                   v11_moves>>

\* Line 167.
V11_Setup_167_KeepsOld ==
    /\ V11_Main("v167")
    /\ v11_pc' = "v196"
    /\ UNCHANGED <<ic9700, ft891, v11_txGround, v11_preampSwitch, v11_txInh,
                   v11_inhLed, v11_txLed, v11_ampRelay, v11_preampRelay,
                   v11_txState, v11_oldTxState, preampEnabled, v11_attached,
                   v11_irq, v11_moves>>
V11_Setup_167 ==
    /\ V11_Main("v167")
    /\ v11_oldTxState' = TX_ON
    /\ v11_pc' = "v196"
    /\ UNCHANGED <<ic9700, ft891, v11_txGround, v11_preampSwitch, v11_txInh,
                   v11_inhLed, v11_txLed, v11_ampRelay, v11_preampRelay,
                   v11_txState, preampEnabled, v11_attached, v11_irq,
                   v11_moves>>

(* loop (lines 194-208).                                                   *)

\* Line 196.
V11_Loop_196 ==
    /\ V11_Main("v196")
    /\ V11_SwitchPreamp(PREAMP_RX)
    /\ v11_pc' = "v198"
    /\ UNCHANGED <<ic9700, ft891, v11_txGround, v11_preampSwitch, v11_txInh,
                   v11_inhLed, v11_txLed, v11_ampRelay, v11_txState,
                   v11_oldTxState, v11_attached, v11_irq, v11_moves>>

\* Line 198.
V11_Loop_198 ==
    /\ V11_Main("v198")
    /\ v11_pc' = IF v11_txState # v11_oldTxState THEN "v200" ELSE "v196"
    /\ UNCHANGED <<ic9700, ft891, v11_txGround, v11_preampSwitch, v11_txInh,
                   v11_inhLed, v11_txLed, v11_ampRelay, v11_preampRelay,
                   v11_txState, v11_oldTxState, preampEnabled, v11_attached,
                   v11_irq, v11_moves>>

\* Line 200.
V11_Loop_200 ==
    /\ V11_Main("v200")
    /\ v11_oldTxState' = v11_txState
    /\ v11_pc' = "v202"
    /\ UNCHANGED <<ic9700, ft891, v11_txGround, v11_preampSwitch, v11_txInh,
                   v11_inhLed, v11_txLed, v11_ampRelay, v11_preampRelay,
                   v11_txState, preampEnabled, v11_attached, v11_irq,
                   v11_moves>>

\* Lines 202-206.
V11_Loop_202 ==
    /\ V11_Main("v202")
    /\ v11_pc' = IF v11_txState = TX_ON THEN "v220" ELSE "v245"
    /\ UNCHANGED <<ic9700, ft891, v11_txGround, v11_preampSwitch, v11_txInh,
                   v11_inhLed, v11_txLed, v11_ampRelay, v11_preampRelay,
                   v11_txState, v11_oldTxState, preampEnabled, v11_attached,
                   v11_irq, v11_moves>>

(* SetTransmit (lines 218-235).                                            *)

\* Lines 220-223.
V11_SetTransmit_220 ==
    /\ V11_Main("v220")
    /\ v11_txInh' = INH_ON
    /\ v11_inhLed' = LED_ON
    /\ v11_txLed' = LED_ON
    /\ v11_pc' = "v225"
    /\ UNCHANGED <<ic9700, ft891, v11_txGround, v11_preampSwitch,
                   v11_ampRelay, v11_preampRelay, v11_txState,
                   v11_oldTxState, preampEnabled, v11_attached, v11_irq,
                   v11_moves>>

\* Lines 225-227.
V11_SetTransmit_225 ==
    /\ V11_Main("v225")
    /\ V11_SwitchPreamp(PREAMP_TX)
    /\ v11_pc' = "v229"
    /\ UNCHANGED <<ic9700, ft891, v11_txGround, v11_preampSwitch, v11_txInh,
                   v11_inhLed, v11_txLed, v11_ampRelay, v11_txState,
                   v11_oldTxState, v11_attached, v11_irq, v11_moves>>

\* Lines 229-231.
V11_SetTransmit_229 ==
    /\ V11_Main("v229")
    /\ v11_ampRelay' = AMP_ON
    /\ v11_pc' = "v233"
    /\ UNCHANGED <<ic9700, ft891, v11_txGround, v11_preampSwitch, v11_txInh,
                   v11_inhLed, v11_txLed, v11_preampRelay, v11_txState,
                   v11_oldTxState, preampEnabled, v11_attached, v11_irq,
                   v11_moves>>

\* Lines 233-234.
V11_SetTransmit_233 ==
    /\ V11_Main("v233")
    /\ v11_txInh' = INH_OFF
    /\ v11_inhLed' = LED_OFF
    /\ v11_pc' = "v196"
    /\ UNCHANGED <<ic9700, ft891, v11_txGround, v11_preampSwitch, v11_txLed,
                   v11_ampRelay, v11_preampRelay, v11_txState,
                   v11_oldTxState, preampEnabled, v11_attached, v11_irq,
                   v11_moves>>

(* SetReceive (lines 243-255).                                             *)

\* Lines 245-252.
V11_SetReceive_245 ==
    /\ V11_Main("v245")
    /\ v11_txInh' = INH_ON
    /\ v11_inhLed' = LED_ON
    /\ v11_txLed' = LED_OFF
    /\ v11_ampRelay' = AMP_OFF
    /\ v11_pc' = "v254"
    /\ UNCHANGED <<ic9700, ft891, v11_txGround, v11_preampSwitch,
                   v11_preampRelay, v11_txState, v11_oldTxState,
                   preampEnabled, v11_attached, v11_irq, v11_moves>>

\* Line 254.
V11_SetReceive_254 ==
    /\ V11_Main("v254")
    /\ V11_SwitchPreamp(PREAMP_RX)
    /\ v11_pc' = "v196"
    /\ UNCHANGED <<ic9700, ft891, v11_txGround, v11_preampSwitch, v11_txInh,
                   v11_inhLed, v11_txLed, v11_ampRelay, v11_txState,
                   v11_oldTxState, v11_attached, v11_irq, v11_moves>>

(* TxInterrupt (lines 263-266) and the world around the sequencer.         *)

V11_TxInterrupt ==
    /\ v11_irq
    /\ v11_irq' = FALSE
    /\ v11_txState' = v11_txGround
    /\ UNCHANGED <<ic9700, ft891, v11_txGround, v11_preampSwitch, v11_txInh,
                   v11_inhLed, v11_txLed, v11_ampRelay, v11_preampRelay,
                   v11_oldTxState, preampEnabled, v11_pc, v11_attached,
                   v11_moves>>

\* The radio goes to transmit or back to receive.
V11_PttChange ==
    /\ ~v11_irq
    /\ v11_txGround' = ~v11_txGround
    /\ v11_irq' = v11_attached
    /\ UNCHANGED <<ic9700, ft891, v11_preampSwitch, v11_txInh, v11_inhLed,
                   v11_txLed, v11_ampRelay, v11_preampRelay, v11_txState,
                   v11_oldTxState, preampEnabled, v11_pc, v11_attached,
                   v11_moves>>

\* The operator moves the preamp switch.
V11_SwitchChange ==
    /\ ~v11_irq
    /\ v11_moves < MaxMoves
    /\ v11_moves' = v11_moves + 1
    /\ v11_preampSwitch' = ~v11_preampSwitch
    /\ UNCHANGED <<ic9700, ft891, v11_txGround, v11_txInh, v11_inhLed,
                   v11_txLed, v11_ampRelay, v11_preampRelay, v11_txState,
                   v11_oldTxState, preampEnabled, v11_pc, v11_attached,
                   v11_irq>>

\* Power-up: the globals as initialised by lines 82-85, the relays not
\* operated (lines 105-107), the other pins at either level.
V11_Init ==
    /\ IC_Off /\ FT_Off
    /\ v11_txGround \in BOOLEAN
    /\ v11_preampSwitch \in BOOLEAN
    /\ v11_txInh \in BOOLEAN
    /\ v11_inhLed \in BOOLEAN
    /\ v11_txLed \in BOOLEAN
    /\ v11_ampRelay = AMP_OFF
    /\ v11_preampRelay = PREAMP_TX
    /\ v11_txState = TX_OFF
    /\ v11_oldTxState = TX_OFF
    /\ preampEnabled = FALSE
    /\ v11_pc = "v111"
    /\ v11_attached = FALSE
    /\ v11_irq = FALSE
    /\ v11_moves = 0

V11_Program ==
    \/ V11_Setup_111 \/ V11_Setup_132 \/ V11_Setup_143 \/ V11_Setup_165
    \/ V11_Setup_167
    \/ V11_Loop_196 \/ V11_Loop_198 \/ V11_Loop_200 \/ V11_Loop_202
    \/ V11_SetTransmit_220 \/ V11_SetTransmit_225 \/ V11_SetTransmit_229
    \/ V11_SetTransmit_233
    \/ V11_SetReceive_245 \/ V11_SetReceive_254

V11_Next == V11_Program \/ V11_TxInterrupt \/ V11_PttChange \/ V11_SwitchChange

SpecV11 == V11_Init /\ [][V11_Next]_vars

-----------------------------------------------------------------------------
(* Version 1.1 powered up in receive: TX_GROUND stays at PTT_OFF, no edge  *)
(* ever comes, and the processor keeps running.                            *)
V11_InitQuiet == V11_Init /\ v11_txGround = PTT_OFF

V11_ProgramQuiet ==
    \/ V11_Setup_111 \/ V11_Setup_132 \/ V11_Setup_143 \/ V11_Setup_165
    \/ V11_Setup_167
    \/ V11_Loop_196 \/ V11_Loop_198 \/ V11_Loop_200 \/ V11_Loop_202
    \/ V11_SetReceive_245 \/ V11_SetReceive_254

V11_NextQuiet == V11_ProgramQuiet \/ V11_SwitchChange

SpecV11Quiet ==
    V11_InitQuiet /\ [][V11_NextQuiet]_vars /\ WF_vars(V11_ProgramQuiet)

\* The level of the preamp relay in receive for the position of the switch.
V11_RxLevel == IF v11_preampSwitch THEN PREAMP_RX ELSE PREAMP_TX

\* The rest state of the outputs.
V11_AtRest ==
    /\ v11_txLed = LED_OFF
    /\ v11_txInh = INH_ON
    /\ v11_ampRelay = AMP_OFF
    /\ v11_preampRelay = V11_RxLevel

\* C38: setup ends with txState at TX_OFF and oldTxState forced to TX_ON, so
\* the change test of the first polling cycle succeeds and SetReceive is
\* run; SetReceive returns with the transmit LED off, the inhibit asserted,
\* the amplifier un-keyed and the preamp relay in receive if the switch
\* enables the preamp; SetTransmit is never entered; and the outputs end up
\* and stay in that state.
C38_FirstCycleReceives ==
    /\ [][(v11_pc = "v167" /\ v11_pc' = "v196") =>
             (v11_txState' = TX_OFF /\ v11_oldTxState' = TX_ON)]_vars
    /\ [](v11_pc \notin {"v220", "v225", "v229", "v233"})
    /\ (v11_pc = "v167") ~> (v11_pc = "v245" /\ v11_oldTxState = TX_OFF)
    /\ [][(v11_pc = "v254" /\ v11_pc' = "v196") => V11_AtRest']_vars
    /\ <>[](V11_AtRest /\ v11_pc \in {"v196", "v198"})

\* C38 witness: the receive sequence of the first polling cycle has turned
\* off the transmit LED that setup had lit, and has put the enabled preamp
\* in receive.
C38_Witness ==
    /\ v11_pc = "v196" /\ v11_txGround = PTT_OFF
    /\ v11_txState = TX_OFF /\ v11_oldTxState = TX_OFF
    /\ v11_preampSwitch /\ preampEnabled
    /\ V11_AtRest

=============================================================================
